---------------------------- MODULE Spec2Model ----------------------------
(***************************************************************************)
(* TEI XML -> Markdown extractor (src/src/ingestion/extractor.py) and PDF  *)
(* downloader (src/src/ingestion/downloader.py,                            *)
(* src/src/extractor/downloader.py).                                       *)
(*                                                                         *)
(* A text is a sequence of one-character strings.  An element is a record  *)
(* [tag, attrs, text, kids, tail] as lxml presents it: text is the text    *)
(* before the first child, tail the text after the closing tag, attrs a    *)
(* function from the attribute names that are present to their values.     *)
(* A Python dict is a sequence of <<key, value>> pairs in insertion order. *)
(*                                                                         *)
(* pc .. div_i are the locals of the running call of                       *)
(* extract_markdown_to_file; output_dir and output_file are the directory  *)
(* and the file it writes; calls counts the calls that followed the first  *)
(* one, and other holds the locals of a second call that is suspended.     *)
(*                                                                         *)
(* impl .. returned are a PDFDownloader and the call of download_paper it  *)
(* runs: impl names the module of the class, pdf_file is what the file of  *)
(* the paper starts with, returned is what the call returns.               *)
(* requests_sent counts the HTTP requests of the call, stats_before is     *)
(* stats as the call found it, and downloads counts                        *)
(* the calls.                                                              *)
(***************************************************************************)
EXTENDS Integers, Sequences, FiniteSets, TLC

VARIABLES pc, doc, refs, footnotes, md, footnote_counters, used_footnotes, div_i,
          output_dir, output_file, calls, other,
          impl, max_retries, stats, dl_pc, url, overwrite, attempt, pdf_file, returned,
          requests_sent, stats_before, downloads,
          conv_pc, xml_file, conv_overwrite, delete_pdf, conv_stats, conv_returned,
          posts_sent, conv_stats_before, conversions,
          fetch_impl, fetch_max_retries, fetch_pc, fetch_attempt, fetch_response,
          fetch_returned, fetch_printed, fetch_requests, batches

\* the state of the Markdown extractor
extractor_vars ==
    <<pc, doc, refs, footnotes, md, footnote_counters, used_footnotes, div_i,
      output_dir, output_file, calls, other>>

\* the state of the PDF downloader
downloader_vars ==
    <<impl, max_retries, stats, dl_pc, url, overwrite, attempt, pdf_file, returned,
      requests_sent, stats_before, downloads>>

\* the state of the GROBID converter
converter_vars ==
    <<conv_pc, xml_file, conv_overwrite, delete_pdf, conv_stats, conv_returned,
      posts_sent, conv_stats_before, conversions>>

\* the state of the Semantic Scholar client
fetcher_vars ==
    <<fetch_impl, fetch_max_retries, fetch_pc, fetch_attempt, fetch_response,
      fetch_returned, fetch_printed, fetch_requests, batches>>

vars == <<extractor_vars, downloader_vars, converter_vars, fetcher_vars>>

(***************************************************************************)
(* Bounds of the model.                                                    *)
(***************************************************************************)
\* inline children of one paragraph
MaxKids == 2
\* top-level sections of a body
MaxDivs == 2
\* nesting of sections below a top-level section
MaxNest == 2

\* the calls that may follow the first two
MaxCalls == 2
\* sections nested below a top-level section in the deepest document
MaxDepth == 5
\* calls of download_paper on one downloader
MaxDownloads == 2
\* the largest max_retries a downloader is constructed with
MaxRetries == 3

\* calls of convert_pdf on one converter
MaxConversions == 1

\* calls of _fetch_batch on one client
MaxBatches == 2
\* the largest max_retries _fetch_batch is called with
MaxFetchRetries == 3

(***************************************************************************)
(* Python str operations on texts.                                         *)
(***************************************************************************)
UpperCase == <<"A","B","C","D","E","F","G","H","I","J","K","L","M","N","O","P","Q","R","S","T","U","V","W","X","Y","Z">>
LowerCase == <<"a","b","c","d","e","f","g","h","i","j","k","l","m","n","o","p","q","r","s","t","u","v","w","x","y","z">>
Digits == <<"0","1","2","3","4","5","6","7","8","9">>

\* the characters str.strip() removes and the regex class \s matches
Whitespace == {" ", "\n", "\t", "\r"}

IsDigit(c) == \E i \in 1..Len(Digits) : Digits[i] = c

lower_char(c) ==
    IF \E i \in 1..Len(UpperCase) : UpperCase[i] = c
    THEN LowerCase[CHOOSE i \in 1..Len(UpperCase) : UpperCase[i] = c]
    ELSE c

\* str.lower()
lower(s) == [i \in 1..Len(s) |-> lower_char(s[i])]

\* str.lstrip() / str.lstrip(chars)
RECURSIVE lstrip_chars(_, _)
lstrip_chars(s, chars) ==
    IF s # <<>> /\ Head(s) \in chars THEN lstrip_chars(Tail(s), chars) ELSE s

RECURSIVE rstrip_chars(_, _)
rstrip_chars(s, chars) ==
    IF s # <<>> /\ s[Len(s)] \in chars
    THEN rstrip_chars(SubSeq(s, 1, Len(s) - 1), chars)
    ELSE s

\* str.strip()
strip(s) == rstrip_chars(lstrip_chars(s, Whitespace), Whitespace)

\* str.startswith(prefix)
startswith(s, prefix) ==
    /\ Len(prefix) <= Len(s)
    /\ SubSeq(s, 1, Len(prefix)) = prefix

\* str.replace("\n", " ")
replace_newlines(s) == [i \in 1..Len(s) |-> IF s[i] = "\n" THEN " " ELSE s[i]]

\* str(n) for n >= 0
RECURSIVE str_int(_)
str_int(n) ==
    IF n < 10 THEN <<Digits[n + 1]>>
    ELSE str_int(n \div 10) \o <<Digits[(n % 10) + 1]>>

\* "".join(parts)
RECURSIVE join_all(_)
join_all(parts) ==
    IF parts = <<>> THEN <<>> ELSE Head(parts) \o join_all(Tail(parts))

\* sep.join(parts)
RECURSIVE join_sep(_, _)
join_sep(sep, parts) ==
    IF parts = <<>> THEN <<>>
    ELSE IF Len(parts) = 1 THEN parts[1]
    ELSE parts[1] \o sep \o join_sep(sep, Tail(parts))

\* s occurs in t as a contiguous run
Contains(t, s) ==
    \E i \in 0..(Len(t) - Len(s)) : SubSeq(t, i + 1, i + Len(s)) = s

(***************************************************************************)
(* Python dict: insertion-ordered <<key, value>> pairs.                    *)
(***************************************************************************)
dict_keys(d) == {d[i][1] : i \in 1..Len(d)}

dict_has(d, k) == \E i \in 1..Len(d) : d[i][1] = k

dict_get(d, k) == d[CHOOSE i \in 1..Len(d) : d[i][1] = k][2]

\* d[k] = v : an existing key keeps its place
dict_set(d, k, v) ==
    IF dict_has(d, k)
    THEN [i \in 1..Len(d) |-> IF d[i][1] = k THEN <<k, v>> ELSE d[i]]
    ELSE Append(d, <<k, v>>)

(***************************************************************************)
(* lxml elements.                                                          *)
(***************************************************************************)
\* el.get(name, default)
attr_get(el, name, default) ==
    IF name \in DOMAIN el.attrs THEN el.attrs[name] ELSE default

\* "".join(el.itertext())
RECURSIVE itertext(_)
itertext(el) ==
    LET RECURSIVE over(_)
        over(ks) ==
            IF ks = <<>> THEN <<>>
            ELSE itertext(Head(ks)) \o Head(ks).tail \o over(Tail(ks))
    IN  el.text \o over(el.kids)

(***************************************************************************)
(* Section filtering.                                                      *)
(***************************************************************************)
SKIP_TAGS ==
    {"formula", "figure", "table", "cell", "row", "label", "graphic", "figDesc", "trash"}

EXCLUDED_SECTIONS ==
    { <<"c","o","n","c","l","u","s","i","o","n">>,
      <<"c","o","n","c","l","u","s","i","o","n","s">>,
      <<"d","i","s","c","u","s","s","i","o","n">>,
      <<"r","e","l","a","t","e","d"," ","w","o","r","k">>,
      <<"r","e","l","a","t","e","d"," ","w","o","r","k","s">>,
      <<"a","c","k","n","o","w","l","e","d","g","e","m","e","n","t">>,
      <<"a","c","k","n","o","w","l","e","d","g","e","m","e","n","t","s">>,
      <<"a","c","k","n","o","w","l","e","d","g","m","e","n","t">>,
      <<"a","c","k","n","o","w","l","e","d","g","m","e","n","t","s">>,
      <<"f","u","n","d","i","n","g">>,
      <<"c","o","n","f","l","i","c","t"," ","o","f"," ","i","n","t","e","r","e","s","t">>,
      <<"c","o","m","p","e","t","i","n","g"," ","i","n","t","e","r","e","s","t","s">>,
      <<"a","u","t","h","o","r"," ","c","o","n","t","r","i","b","u","t","i","o","n","s">>,
      <<"e","t","h","i","c","s"," ","s","t","a","t","e","m","e","n","t">>,
      <<"b","r","o","a","d","e","r"," ","i","m","p","a","c","t">>,
      <<"l","i","m","i","t","a","t","i","o","n","s">>,
      <<"s","u","p","p","l","e","m","e","n","t","a","r","y">>,
      <<"s","u","p","p","l","e","m","e","n","t","a","r","y"," ","m","a","t","e","r","i","a","l">>,
      <<"s","u","p","p","l","e","m","e","n","t","a","r","y"," ","m","a","t","e","r","i","a","l","s">>,
      <<"s","u","p","p","l","e","m","e","n","t","a","r","y"," ","d","e","t","a","i","l","s">>,
      <<"a","p","p","e","n","d","i","x">> }

excluded_prefixes ==
    << <<"a","p","p","e","n","d","i","x">>,
       <<"s","u","p","p","l","e","m","e","n","t","a","r","y">>,
       <<"p","r","o","o","f">> >>

\* re.match(r'^[a-f]\.\s', h)
lettered_appendix(h) ==
    /\ Len(h) >= 3
    /\ h[1] \in {"a", "b", "c", "d", "e", "f"}
    /\ h[2] = "."
    /\ h[3] \in Whitespace

_is_excluded_section(heading) ==
    LET h == lower(strip(heading))
    IN  \/ h \in EXCLUDED_SECTIONS
        \/ \E i \in 1..Len(excluded_prefixes) : startswith(h, excluded_prefixes[i])
        \/ lettered_appendix(h)

(***************************************************************************)
(* Reference parsing.  A biblStruct is the record of what the XPath        *)
(* queries of _parse_references find in it, in document order:             *)
(*   xml_id     the xml:id attribute ("" when absent)                      *)
(*   persNames  one entry per author persName: the texts of its surname    *)
(*              children                                                   *)
(*   dates      one entry per date node: [when, text]                      *)
(*   title_a, title_m, title_j, settlement                                 *)
(*              the texts of the nodes each title / venue query matches    *)
(***************************************************************************)
\* _get_text on the texts of the nodes the query matched
_get_text(results) == IF results = <<>> THEN <<>> ELSE strip(results[1])

\* re.match(r"\d{4}", s)
match_4digits(s) == Len(s) >= 4 /\ \A i \in 1..4 : IsDigit(s[i])

\* re.search(r"\d{4}", s).group(), or <<>> when there is no match
search_4digits(s) ==
    LET hits == {i \in 1..(Len(s) - 3) : match_4digits(SubSeq(s, i, i + 3))}
    IN  IF hits = {} THEN <<>>
        ELSE LET i == CHOOSE k \in hits : \A m \in hits : k <= m
             IN  SubSeq(s, i, i + 3)

\* re.match(r'^b\d+$', xml_id): "$" also matches before a final newline
match_b_digits(xml_id) ==
    LET body == IF xml_id # <<>> /\ xml_id[Len(xml_id)] = "\n"
                THEN SubSeq(xml_id, 1, Len(xml_id) - 1) ELSE xml_id
        bare(s) == Len(s) >= 2 /\ s[1] = "b" /\ \A i \in 2..Len(s) : IsDigit(s[i])
    IN  bare(xml_id) \/ bare(body)

\* the author loop: a persName contributes its surname when that is non-empty
RECURSIVE bib_authors(_)
bib_authors(persNames) ==
    IF persNames = <<>> THEN <<>>
    ELSE LET surname == _get_text(Head(persNames))
         IN  (IF surname # <<>> THEN <<surname>> ELSE <<>>) \o bib_authors(Tail(persNames))

\* a mutant of bib_year: the scan does not stop, the last date node that
\* yields a year wins
bib_year_last_wins(dates) ==
    LET yields(i) == \/ match_4digits(dates[i].when)
                     \/ search_4digits(strip(dates[i].text)) # <<>>
        hits      == {i \in 1..Len(dates) : yields(i)}
        last      == CHOOSE i \in hits : \A j \in hits : j <= i
    IN  IF hits = {} THEN <<>>
        ELSE IF match_4digits(dates[last].when) THEN SubSeq(dates[last].when, 1, 4)
        ELSE search_4digits(strip(dates[last].text))

\* the date loop: the first date node that yields a year ends the scan
RECURSIVE bib_year(_)
bib_year(dates) ==
    IF dates = <<>> THEN <<>>
    ELSE LET when == Head(dates).when
             m    == search_4digits(strip(Head(dates).text))
         IN  IF match_4digits(when) THEN SubSeq(when, 1, 4)
             ELSE IF m # <<>> THEN m
             ELSE bib_year(Tail(dates))

bib_title(bib) ==
    IF _get_text(bib.title_a) # <<>> THEN _get_text(bib.title_a)
    ELSE IF _get_text(bib.title_m) # <<>> THEN _get_text(bib.title_m)
    ELSE _get_text(bib.title_j)

bib_venue(bib) ==
    IF _get_text(bib.title_j) # <<>> THEN _get_text(bib.title_j)
    ELSE _get_text(bib.settlement)

\* a mutant of bib_label: two authors are shortened to "et al." as well
bib_label_et_al_from_two(xml_id, authors, year) ==
    IF authors # <<>>
    THEN IF Len(authors) = 1 THEN authors[1] \o <<",", " ">> \o year
         ELSE authors[1] \o <<" ", "e", "t", " ", "a", "l", ".", ",", " ">> \o year
    ELSE IF year # <<>> THEN year ELSE xml_id

\* a mutant of bib_label: without authors the label is the year, whatever it is
bib_label_year_only(xml_id, authors, year) ==
    IF authors # <<>>
    THEN IF Len(authors) = 1 THEN authors[1] \o <<",", " ">> \o year
         ELSE IF Len(authors) = 2
         THEN authors[1] \o <<" ", "a", "n", "d", " ">> \o authors[2] \o <<",", " ">> \o year
         ELSE authors[1] \o <<" ", "e", "t", " ", "a", "l", ".", ",", " ">> \o year
    ELSE year

\* the label of an entry, from its surnames and year
bib_label(xml_id, authors, year) ==
    IF authors # <<>>
    THEN IF Len(authors) = 1 THEN authors[1] \o <<",", " ">> \o year
         ELSE IF Len(authors) = 2
         THEN authors[1] \o <<" ", "a", "n", "d", " ">> \o authors[2] \o <<",", " ">> \o year
         ELSE authors[1] \o <<" ", "e", "t", " ", "a", "l", ".", ",", " ">> \o year
    ELSE IF year # <<>> THEN year ELSE xml_id

\* a mutant of bib_skipped: the b<digits> test is missing
bib_skipped_no_pattern(xml_id, authors, year, title) ==
    \/ authors = <<>> /\ title = <<>> /\ year = <<>>
    \/ /\ title = <<>>
       /\ \/ year = <<>>
          \/ authors = <<>>
          \/ Len(authors) = 1 /\ year = <<>>

\* the two "continue" tests that keep an entry out of the table
bib_skipped(xml_id, authors, year, title) ==
    \/ authors = <<>> /\ title = <<>> /\ year = <<>>
    \/ /\ title = <<>>
       /\ \/ year = <<>>
          \/ authors = <<>>
          \/ match_b_digits(xml_id)
          \/ Len(authors) = 1 /\ year = <<>>

RECURSIVE parse_bibls(_, _)
parse_bibls(bibls, acc) ==
    IF bibls = <<>> THEN acc
    ELSE LET bib     == Head(bibls)
             xml_id  == bib.xml_id
             authors == bib_authors(bib.persNames)
             year    == bib_year(bib.dates)
             title   == bib_title(bib)
             ref     == [id |-> xml_id, authors |-> authors, year |-> year,
                         title |-> title, venue |-> bib_venue(bib),
                         label |-> bib_label(xml_id, authors, year)]
         IN  IF xml_id = <<>> \/ bib_skipped(xml_id, authors, year, title)
             THEN parse_bibls(Tail(bibls), acc)
             ELSE parse_bibls(Tail(bibls), dict_set(acc, xml_id, ref))

_parse_references(root) == parse_bibls(root.bibls, <<>>)

(***************************************************************************)
(* Footnote parsing.                                                       *)
(***************************************************************************)
\* an element and its descendants in document order
RECURSIVE descendants(_)
descendants(el) ==
    LET RECURSIVE over(_)
        over(ks) == IF ks = <<>> THEN <<>> ELSE descendants(Head(ks)) \o over(Tail(ks))
    IN  <<el>> \o over(el.kids)

RECURSIVE descendants_of_all(_)
descendants_of_all(els) ==
    IF els = <<>> THEN <<>> ELSE descendants(Head(els)) \o descendants_of_all(Tail(els))

\* root.xpath("//t:note[@place='foot']")
xpath_foot_notes(root) ==
    SelectSeq(descendants_of_all(root.body.kids),
              LAMBDA el : el.tag = "note" /\ attr_get(el, "place", <<>>) = <<"f","o","o","t">>)

\* a mutant of note_kept: a note with an id is stored whatever its text
note_kept_whatever_text(xml_id, text) == xml_id # <<>>

\* "if xml_id and text"
note_kept(xml_id, text) == xml_id # <<>> /\ text # <<>>

RECURSIVE parse_notes(_, _)
parse_notes(notes, acc) ==
    IF notes = <<>> THEN acc
    ELSE LET xml_id == attr_get(Head(notes), "xml:id", <<>>)
             text   == strip(itertext(Head(notes)))
         IN  IF note_kept(xml_id, text)
             THEN parse_notes(Tail(notes), dict_set(acc, xml_id, text))
             ELSE parse_notes(Tail(notes), acc)

_parse_footnotes(root) == parse_notes(xpath_foot_notes(root), <<>>)

(***************************************************************************)
(* Body text extraction.  A rendering returns [out, fc, uf]: the Markdown  *)
(* fragment and the footnote_counters and used_footnotes it leaves behind. *)
(***************************************************************************)
\* "#" * n
hashes_of(n) == [i \in 1..n |-> "#"]

min(a, b) == IF a <= b THEN a ELSE b

\* a mutant of render_head: the level is not capped
render_head_uncapped(el, depth) ==
    LET n      == attr_get(el, "n", <<>>)
        txt    == strip(itertext(el))
        prefix == IF n # <<>> THEN n \o <<" ">> ELSE <<>>
        hashes == hashes_of(depth + 2)
    IN  <<"\n", "\n">> \o hashes \o <<" ">> \o prefix \o txt \o <<"\n", "\n">>

\* the "head" branch
render_head(el, depth) ==
    LET n      == attr_get(el, "n", <<>>)
        txt    == strip(itertext(el))
        prefix == IF n # <<>> THEN n \o <<" ">> ELSE <<>>
        hashes == hashes_of(min(depth + 2, 6))
    IN  <<"\n", "\n">> \o hashes \o <<" ">> \o prefix \o txt \o <<"\n", "\n">>

\* el.find(head): the first child that is a head, as a sequence of 0 or 1
find_head(el) ==
    LET hs == SelectSeq(el.kids, LAMBDA k : k.tag = "head")
    IN  IF hs = <<>> THEN <<>> ELSE <<hs[1]>>

\* a mutant of div_excluded: the heading is looked up in the exclusion set as it is
div_excluded_exact(el) ==
    /\ find_head(el) # <<>>
    /\ strip(itertext(find_head(el)[1])) \in EXCLUDED_SECTIONS

\* a mutant of div_excluded: only the listed names exclude a section
div_excluded_listed_only(el) ==
    /\ find_head(el) # <<>>
    /\ lower(strip(itertext(find_head(el)[1]))) \in EXCLUDED_SECTIONS

\* the "div" branch's test: a head child whose text the filter excludes
div_excluded(el) ==
    /\ find_head(el) # <<>>
    /\ _is_excluded_section(strip(itertext(find_head(el)[1])))

\* a mutant of render_bibr: the "#" is left on the target
render_bibr_unstripped(el, refs_) ==
    LET target == attr_get(el, "target", <<>>)
    IN  IF target # <<>> /\ dict_has(refs_, target)
        THEN <<"[">> \o dict_get(refs_, target).label \o <<"]">>
        ELSE <<"[">> \o strip(itertext(el)) \o <<"]">>

\* the inline citation branch
render_bibr(el, refs_) ==
    LET target == lstrip_chars(attr_get(el, "target", <<>>), {"#"})
    IN  IF target # <<>> /\ dict_has(refs_, target)
        THEN <<"[">> \o dict_get(refs_, target).label \o <<"]">>
        ELSE <<"[">> \o strip(itertext(el)) \o <<"]">>

\* a mutant of render_foot: ordinals follow the order of the Footnote table
render_foot_declared(el, footnotes_, fc, uf) ==
    LET target == lstrip_chars(attr_get(el, "target", <<>>), {"#"})
    IN  IF dict_has(footnotes_, target)
        THEN IF ~dict_has(fc, target)
             THEN LET n == CHOOSE i \in 1..Len(footnotes_) : footnotes_[i][1] = target
                  IN  [out |-> <<"[", "^">> \o str_int(n) \o <<"]">>,
                       fc  |-> dict_set(fc, target, n),
                       uf  |-> Append(uf, <<n, target, dict_get(footnotes_, target)>>)]
             ELSE [out |-> <<"[", "^">> \o str_int(dict_get(fc, target)) \o <<"]">>,
                   fc  |-> fc, uf |-> uf]
        ELSE [out |-> <<>>, fc |-> fc, uf |-> uf]

\* a mutant of render_foot: a marker met again is logged again
render_foot_relogged(el, footnotes_, fc, uf) ==
    LET target == lstrip_chars(attr_get(el, "target", <<>>), {"#"})
    IN  IF dict_has(footnotes_, target)
        THEN LET n == IF dict_has(fc, target) THEN dict_get(fc, target) ELSE Len(fc) + 1
             IN  [out |-> <<"[", "^">> \o str_int(n) \o <<"]">>,
                  fc  |-> dict_set(fc, target, n),
                  uf  |-> Append(uf, <<n, target, dict_get(footnotes_, target)>>)]
        ELSE [out |-> <<>>, fc |-> fc, uf |-> uf]

\* a mutant of render_foot: a marker without a footnote still takes an ordinal
render_foot_counts_unresolved(el, footnotes_, fc, uf) ==
    LET target == lstrip_chars(attr_get(el, "target", <<>>), {"#"})
    IN  IF ~dict_has(fc, target)
        THEN LET n == Len(fc) + 1
             IN  IF dict_has(footnotes_, target)
                 THEN [out |-> <<"[", "^">> \o str_int(n) \o <<"]">>,
                       fc  |-> dict_set(fc, target, n),
                       uf  |-> Append(uf, <<n, target, dict_get(footnotes_, target)>>)]
                 ELSE [out |-> <<>>, fc |-> dict_set(fc, target, n), uf |-> uf]
        ELSE IF dict_has(footnotes_, target)
        THEN [out |-> <<"[", "^">> \o str_int(dict_get(fc, target)) \o <<"]">>,
              fc  |-> fc, uf |-> uf]
        ELSE [out |-> <<>>, fc |-> fc, uf |-> uf]

\* the footnote reference branch
render_foot(el, footnotes_, fc, uf) ==
    LET target == lstrip_chars(attr_get(el, "target", <<>>), {"#"})
    IN  IF dict_has(footnotes_, target)
        THEN IF ~dict_has(fc, target)
             THEN LET n == Len(fc) + 1
                  IN  [out |-> <<"[", "^">> \o str_int(n) \o <<"]">>,
                       fc  |-> dict_set(fc, target, n),
                       uf  |-> Append(uf, <<n, target, dict_get(footnotes_, target)>>)]
             ELSE [out |-> <<"[", "^">> \o str_int(dict_get(fc, target)) \o <<"]">>,
                   fc  |-> fc, uf |-> uf]
        ELSE [out |-> <<>>, fc |-> fc, uf |-> uf]

\* the paragraph branch, given the rendering of the children
wrap_paragraph(inner) ==
    LET text == strip(inner)
    IN  IF text = <<>> THEN <<>> ELSE <<"\n", "\n">> \o text \o <<"\n", "\n">>

\* a mutant of is_noise: tables are missing from the set
is_noise_without_table(tag) == tag \in (SKIP_TAGS \ {"table"})

\* tag in SKIP_TAGS
is_noise(tag) == tag \in SKIP_TAGS

\* the default branch's result, given the rendering of the children
default_result(el, result) == replace_newlines(el.text) \o result

RECURSIVE _element_to_markdown(_, _, _, _, _, _)
RECURSIVE _children_to_markdown(_, _, _, _, _, _)

_element_to_markdown(el, refs_, footnotes_, fc, uf, depth) ==
    IF is_noise(el.tag) THEN [out |-> <<>>, fc |-> fc, uf |-> uf]
    ELSE IF el.tag = "head" THEN [out |-> render_head(el, depth), fc |-> fc, uf |-> uf]
    ELSE IF el.tag = "div"
    THEN IF div_excluded(el) THEN [out |-> <<>>, fc |-> fc, uf |-> uf]
         ELSE _children_to_markdown(el, refs_, footnotes_, fc, uf, depth + 1)
    ELSE IF el.tag = "ref" /\ attr_get(el, "type", <<>>) = <<"b","i","b","r">>
    THEN [out |-> render_bibr(el, refs_), fc |-> fc, uf |-> uf]
    ELSE IF el.tag = "ref" /\ attr_get(el, "type", <<>>) = <<"f","o","o","t">>
    THEN render_foot(el, footnotes_, fc, uf)
    ELSE IF el.tag = "p"
    THEN LET inner == _children_to_markdown(el, refs_, footnotes_, fc, uf, depth)
         IN  [out |-> wrap_paragraph(inner.out), fc |-> inner.fc, uf |-> inner.uf]
    ELSE LET result == _children_to_markdown(el, refs_, footnotes_, fc, uf, depth)
         IN  [out |-> default_result(el, result.out), fc |-> result.fc, uf |-> result.uf]

_children_to_markdown(el, refs_, footnotes_, fc, uf, depth) ==
    LET RECURSIVE over(_, _)
        over(ks, acc) ==
            IF ks = <<>> THEN acc
            ELSE LET r == _element_to_markdown(Head(ks), refs_, footnotes_, acc.fc, acc.uf, depth)
                 IN  over(Tail(ks),
                          [out |-> acc.out \o r.out \o replace_newlines(Head(ks).tail),
                           fc  |-> r.fc, uf |-> r.uf])
    IN  over(el.kids, [out |-> replace_newlines(el.text), fc |-> fc, uf |-> uf])

(***************************************************************************)
(* extract_markdown.  The root is the record of what its XPath queries     *)
(* find: title_main (texts of the main titles), persNames (forename and    *)
(* surname texts of each author of the sourceDesc), abstract_ps (the p     *)
(* elements of the abstract), body (present, kids) and bibls.              *)
(***************************************************************************)
front_title(root) ==
    LET title == _get_text(root.title_main)
    IN  IF title # <<>> THEN <<"#"," ">> \o title \o <<"\n", "\n">> ELSE <<>>

RECURSIVE front_author_names(_)
front_author_names(persNames) ==
    IF persNames = <<>> THEN <<>>
    ELSE LET forename == _get_text(Head(persNames).forename)
             surname  == _get_text(Head(persNames).surname)
             full     == strip(forename \o <<" ">> \o surname)
         IN  (IF full # <<>> THEN <<full>> ELSE <<>>) \o front_author_names(Tail(persNames))

front_authors(root) ==
    LET authors == front_author_names(root.persNames)
    IN  IF authors # <<>>
        THEN <<"*","*","A","u","t","h","o","r","s",":","*","*"," ">> \o join_sep(<<",", " ">>, authors) \o <<"\n", "\n">>
        ELSE <<>>

RECURSIVE abstract_paragraphs(_)
abstract_paragraphs(ps) ==
    IF ps = <<>> THEN <<>>
    ELSE strip(itertext(Head(ps))) \o <<"\n", "\n">> \o abstract_paragraphs(Tail(ps))

front_abstract(root) ==
    IF root.abstract_ps # <<>>
    THEN <<"#","#"," ","A","b","s","t","r","a","c","t","\n","\n">> \o abstract_paragraphs(root.abstract_ps) \o <<"-","-","-","\n","\n">>
    ELSE <<>>

\* a mutant of front_matter: the abstract is written before the authors line
front_matter_abstract_first(root) ==
    front_title(root) \o front_abstract(root) \o front_authors(root) \o <<"-","-","-","\n","\n">>

\* a mutant of front_matter: the rule closes the title and authors lines and
\* is left out when there are none
front_matter_rule_after_lines(root) ==
    front_title(root) \o front_authors(root)
      \o (IF front_title(root) \o front_authors(root) # <<>> THEN <<"-", "-", "-", "\n", "\n">> ELSE <<>>)
      \o front_abstract(root)

\* md after the front matter: title, authors, rule, abstract
front_matter(root) ==
    front_title(root) \o front_authors(root) \o <<"-","-","-","\n","\n">> \o front_abstract(root)

\* body.xpath("t:div"), nothing when there is no body
body_divs(root) ==
    IF root.body.present
    THEN SelectSeq(root.body.kids, LAMBDA k : k.tag = "div")
    ELSE <<>>

\* sorted(used_footnotes, key=lambda x: x[0]): a stable insertion sort
RECURSIVE sorted_by_ordinal(_)
sorted_by_ordinal(uf) ==
    IF uf = <<>> THEN <<>>
    ELSE LET rest == sorted_by_ordinal(SubSeq(uf, 1, Len(uf) - 1))
             x    == uf[Len(uf)]
             k    == Cardinality({i \in 1..Len(rest) : rest[i][1] <= x[1]})
         IN  SubSeq(rest, 1, k) \o <<x>> \o SubSeq(rest, k + 1, Len(rest))

RECURSIVE footnote_lines(_)
footnote_lines(uf) ==
    IF uf = <<>> THEN <<>>
    ELSE <<"[", "^">> \o str_int(Head(uf)[1]) \o <<"]", ":", " ">> \o Head(uf)[3]
         \o <<"\n", "\n">> \o footnote_lines(Tail(uf))

\* a mutant of footnotes_section: the section is written even when empty
footnotes_section_unconditional(uf) ==
    <<"\n","\n","-","-","-","\n","\n","#","#"," ","F","o","o","t","n","o","t","e","s","\n","\n">> \o footnote_lines(sorted_by_ordinal(uf))

\* the Footnotes section
footnotes_section(uf) ==
    IF uf # <<>>
    THEN <<"\n","\n","-","-","-","\n","\n","#","#"," ","F","o","o","t","n","o","t","e","s","\n","\n">> \o footnote_lines(sorted_by_ordinal(uf))
    ELSE <<>>

RECURSIVE reference_lines(_)
reference_lines(rs) ==
    IF rs = <<>> THEN <<>>
    ELSE LET ref         == Head(rs)[2]
             authors_str == IF ref.authors # <<>> THEN join_sep(<<",", " ">>, ref.authors)
                            ELSE <<"U","n","k","n","o","w","n">>
             venue_str   == IF ref.venue # <<>> THEN <<" ", "*">> \o ref.venue \o <<"*", ".">>
                            ELSE <<>>
         IN  <<"-"," ","*","*","[">> \o ref.label \o <<"]","*","*"," ">> \o authors_str \o <<" ", "(">> \o ref.year
             \o <<")", ".", " ">> \o ref.title \o <<".">> \o venue_str \o <<"\n", "\n">>
             \o reference_lines(Tail(rs))

\* the References section
references_section(refs_) ==
    IF refs_ # <<>>
    THEN <<"\n","\n","-","-","-","\n","\n","#","#"," ","R","e","f","e","r","e","n","c","e","s","\n","\n">> \o reference_lines(refs_)
    ELSE <<>>

(***************************************************************************)
(* Input documents.                                                        *)
(***************************************************************************)
NoAttrs == [a \in {} |-> <<>>]

El(tag, attrs, text, kids, tail) ==
    [tag |-> tag, attrs |-> attrs, text |-> text, kids |-> kids, tail |-> tail]

SeqsUpTo(S, n) == UNION {[1..k -> S] : k \in 0..n}

\* <ref type="foot" target=t>1</ref>
FootRef(t, tail) == El("ref", [type |-> <<"f","o","o","t">>, target |-> t], <<"1">>, <<>>, tail)

\* <ref type="bibr" target=t>text</ref>
BibrRef(t, text, tail) == El("ref", [type |-> <<"b","i","b","r">>, target |-> t], text, <<>>, tail)

Head_(n, text) ==
    El("head", IF n = <<>> THEN NoAttrs ELSE [n |-> n], text, <<>>, <<"\n">>)

\* a div with the given heading (none when the heading is empty)
Div(heading, kids) ==
    El("div", NoAttrs, <<"\n">>,
       (IF heading = <<>> THEN <<>> ELSE <<Head_(<<>>, heading)>>) \o kids, <<"\n">>)

P(text, kids) == El("p", NoAttrs, text, kids, <<"\n">>)

Note(xml_id, text) ==
    El("note", ("xml:id" :> xml_id) @@ [place |-> <<"f","o","o","t">>], text, <<>>, <<"\n">>)

\* the footnotes of the sample documents: f2 is declared before f1, f0 is empty
SampleNotes ==
    << Note(<<"f","2">>, <<"n","o","t","e"," ","2">>), Note(<<"f","1">>, <<"s","e","e"," ","n","1">>), Note(<<"f","0">>, <<" ">>),
       Note(<<"f","3">>, <<"t","h","i","r","d"," ">>) >>

BibOf(xml_id, surnames, dates, title_a, title_m, title_j) ==
    [xml_id |-> xml_id, persNames |-> surnames, dates |-> dates,
     title_a |-> title_a, title_m |-> title_m, title_j |-> title_j,
     settlement |-> <<>>]

\* the bibliography of the sample documents: b1 is a full entry, b59 a bare one
SampleBibls ==
    << BibOf(<<"b","1">>, << <<<<"D","o","e">>>> >>, <<[when |-> <<"2","0","2","1">>, text |-> <<>>]>>,
             <<<<"T","i","t","l","e">>>>, <<>>, <<>>),
       BibOf(<<"b","5","9">>, <<>>, <<>>, <<>>, <<>>, <<>>) >>

Doc(divs, bibls) ==
    [title_main  |-> <<<<"E","x","a","m","p","l","e"," ","P","a","p","e","r">>>>,
     persNames   |-> <<[forename |-> <<<<"J","a","n","e">>>>, surname |-> <<<<"D","o","e">>>>]>>,
     abstract_ps |-> <<P(<<"W","e"," ","s","t","u","d","y"," ","X",".">>, <<>>)>>,
     body        |-> [present |-> TRUE, kids |-> divs \o SampleNotes],
     bibls       |-> bibls,
     well_formed |-> TRUE]

\* inline markers: footnotes f1, f2 and the undeclared fz; citations of b1 and b59
Inl ==
    { FootRef(<<"#","f","1">>, <<"x">>), FootRef(<<"#","f","2">>, <<>>), FootRef(<<"#","f","z">>, <<" ">>),
      BibrRef(<<"#","b","1">>, <<"[","1","]">>, <<" ", "y">>), BibrRef(<<"#","b","5","9">>, <<" ","5","9"," ">>, <<>>) }

InlSeqs == SeqsUpTo(Inl, MaxKids)

\* the ways the inline markers are placed below a section
Wrap(w, ks) ==
    CASE w = "p"       -> <<P(<<"a", " ">>, ks)>>
      [] w = "figure"  -> <<El("figure", NoAttrs, <<"N">>, <<P(<<"N">>, ks)>>, <<"\n">>)>>
      [] w = "formula" -> <<P(<<"a">>, <<El("formula", NoAttrs, <<"N">>, ks, <<"z">>)>>)>>
      [] w = "hi"      -> <<P(<<>>, <<El("hi", NoAttrs, <<"g", "\n", "h">>, ks, <<"t">>)>>)>>
      [] w = "list"    -> <<El("list", NoAttrs, <<"\n">>,
                               <<El("item", NoAttrs, <<"i">>, ks, <<"\n">>)>>, <<"\n">>)>>

Wrappers == {"p", "figure", "formula", "hi", "list"}

SampleHeadings == {<<>>, <<"M","e","t","h","o","d","s">>, <<"C","o","n","c","l","u","s","i","o","n">>}

\* one top-level section
DocsOneDiv ==
    { Doc(<<Div(h, Wrap(w, ks))>>, SampleBibls) :
        h \in SampleHeadings, w \in Wrappers, ks \in InlSeqs }

\* sections whose footnote markers meet across the body
DivPalette ==
    { Div(<<"M","e","t","h","o","d","s">>, <<P(<<"a">>, <<FootRef(<<"#","f","1">>, <<>>)>>)>>),
      Div(<<"M","e","t","h","o","d","s">>, <<P(<<"a">>, <<FootRef(<<"#","f","2">>, <<>>), FootRef(<<"#","f","1">>, <<"x">>)>>)>>),
      Div(<<"C","o","n","c","l","u","s","i","o","n">>, <<P(<<"a">>, <<FootRef(<<"#","f","2">>, <<>>)>>)>>),
      Div(<<>>, <<El("figure", NoAttrs, <<>>, <<P(<<"N">>, <<FootRef(<<"#","f","1">>, <<>>)>>)>>, <<>>)>>),
      Div(<<"M","e","t","h","o","d","s">>, <<P(<<>>, <<FootRef(<<"#","f","z">>, <<>>), FootRef(<<"#","f","2">>, <<>>)>>)>>),
      Div(<<"M","e","t","h","o","d","s">>, <<P(<<"a">>, <<FootRef(<<"#","f","3">>, <<>>), FootRef(<<"#","f","2">>, <<>>)>>)>>),
      Div(<<>>, <<P(<<"a">>, <<BibrRef(<<"#","b","1">>, <<"[","1","]">>, <<>>), FootRef(<<"#","f","1">>, <<>>),
                              FootRef(<<"#","f","1">>, <<>>)>>)>>) }

DocsManyDivs ==
    { Doc(ds, SampleBibls) : ds \in (SeqsUpTo(DivPalette, MaxDivs) \ {<<>>}) }

\* sections nested in sections, a paragraph with one marker before each
RECURSIVE NestedDivs(_)
NestedDivs(k) ==
    LET level(inner) ==
            { Div(h, <<P(<<"a">>, <<m>>)>> \o inner) :
                h \in {<<"M","e","t","h","o","d","s">>, <<"C","o","n","c","l","u","s","i","o","n">>},
                m \in {FootRef(<<"#","f","1">>, <<>>), FootRef(<<"#","f","2">>, <<>>), FootRef(<<"#","f","3">>, <<>>)} }
    IN  IF k = 0 THEN level(<<>>)
        ELSE UNION { level(<<d>>) : d \in NestedDivs(k - 1) }

DocsNested ==
    { Doc(<<d>>, SampleBibls) : d \in UNION { NestedDivs(k) : k \in 0..MaxNest } }

\* every noise tag, as a block, inside a paragraph and inside another noise node
DocsNoise ==
    { Doc(<<Div(<<"M","e","t","h","o","d","s">>, <<P(<<"a">>, <<m>>)>> \o body)>>, SampleBibls) :
        m \in Inl,
        body \in UNION { { <<El(t, NoAttrs, <<"N">>, <<P(<<"N">>, <<k>>)>>, <<"z">>)>>,
                           <<P(<<"b">>, <<El(t, NoAttrs, <<"N">>, <<k>>, <<"z">>)>>)>>,
                           <<El("figure", NoAttrs, <<>>,
                                <<El(t, NoAttrs, <<>>, <<P(<<"N">>, <<k>>)>>, <<"N">>)>>, <<>>)>> } :
                         t \in SKIP_TAGS, k \in {FootRef(<<"#","f","2">>, <<"N">>), BibrRef(<<"#","b","1">>, <<"N">>, <<>>)} } }

\* headings for the Section Relevance Filter
NamedHeadings ==
    { <<"C","o","n","c","l","u","s","i","o","n">>, <<"C","O","N","C","L","U","S","I","O","N">>, <<"c","o","n","c","l","u","s","i","o","n">>, <<" ","C","o","n","c","l","u","s","i","o","n","s","\n">>, <<"C","o","n","c","l","u","s","i","o","n","s"," ","a","n","d"," ","F","u","t","u","r","e"," ","W","o","r","k">>, <<"D","i","s","c","u","s","s","i","o","n">>, <<"R","e","l","a","t","e","d"," ","W","o","r","k">>, <<"M","e","t","h","o","d","s">>, <<"R","e","s","u","l","t","s">>, <<"A","p","p","e","n","d","i","x"," ","A">>,
      <<"S","u","p","p","l","e","m","e","n","t","a","r","y"," ","M","a","t","e","r","i","a","l">>, <<"P","r","o","o","f"," ","o","f"," ","L","e","m","m","a"," ","1">>, <<"A","."," ","P","r","o","o","f"," ","o","f"," ","T","h","e","o","r","e","m"," ","1">>, <<"D","a","t","a","s","e","t","s">>, <<"B",".","1"," ","D","e","t","a","i","l","s">>, <<"L","i","m","i","t","a","t","i","o","n","s">> }

\* "A. x", "B.1 x", "c.<tab>x", "D." ... with the letters a-g in both cases
LetteredHeadings ==
    { <<c>> \o rest :
        c \in {"a", "b", "c", "d", "e", "f", "g", "A", "B", "C", "D", "E", "F", "G"},
        rest \in { <<".", " ", "x">>, <<".", "1", " ", "x">>, <<".", "\t", "x">>, <<".">>,
                   <<".", "1", ".", "2", " ", "x">>, <<" ", "x">> } }

FilterHeadings == NamedHeadings \cup LetteredHeadings

\* a section with each heading, at the top of the body and nested in a kept section
DocsHeadings ==
    LET content == <<P(<<"w">>, <<FootRef(<<"#","f","1">>, <<>>), BibrRef(<<"#","b","1">>, <<"[","1","]">>, <<"y">>)>>),
                     Div(<<"M","e","t","h","o","d","s">>, <<P(<<"v">>, <<FootRef(<<"#","f","2">>, <<>>)>>)>>)>>
        after   == Div(<<"M","e","t","h","o","d","s">>, <<P(<<"a">>, <<FootRef(<<"#","f","2">>, <<>>), FootRef(<<"#","f","1">>, <<>>)>>)>>)
    IN  { Doc(<<Div(h, content), after>>, SampleBibls) : h \in FilterHeadings }
        \cup { Doc(<<Div(<<"M","e","t","h","o","d","s">>, <<P(<<"a">>, <<>>), Div(h, content)>>), after>>, SampleBibls) :
                 h \in FilterHeadings }

\* bibliography entries: every combination of id, authors, dates and titles
BibIds == { <<>>, <<"b","5","9">>, <<"b","1">>, <<"r","e","f","1">>, <<"b">>, <<"b","5","x">> }

BibPersNames ==
    { <<>>,
      << <<>> >>,
      << <<<<"D","o","e">>>> >>,
      << <<<<"D","o","e">>>>, <<<<" ">>, <<"X">>>> >>,
      << <<<<"D","o","e">>>>, <<<<"R","o","e">>>> >>,
      << <<<<"D","o","e">>>>, <<<<"R","o","e">>>>, <<<<"P","o","e">>>> >> }

BibDates ==
    { <<>>,
      <<[when |-> <<"2","0","2","1">>, text |-> <<>>]>>,
      <<[when |-> <<"2","0","1">>, text |-> <<"c","."," ","1","9","9","9","a">>]>>,
      <<[when |-> <<>>, text |-> <<"n",".","d",".">>], [when |-> <<"2","0","2","0","-","0","5","-","0","1">>, text |-> <<>>]>>,
      <<[when |-> <<"M","a","y">>, text |-> <<" ","1","2"," ">>]>>,
      <<[when |-> <<>>, text |-> <<"1","9","8","7">>], [when |-> <<"2","0","0","1">>, text |-> <<>>]>>,
      <<[when |-> <<"x","2","0","0","3">>, text |-> <<"\n","v","1","2","3","4","5"," ">>]>> }

BibTitles ==
    { <<<<>>, <<>>, <<>>>>,
      <<<<<<"T","i","t","l","e">>>>, <<>>, <<>>>>,
      <<<<<<" ">>>>, <<<<"B","o","o","k">>>>, <<>>>>,
      <<<<>>, <<>>, <<<<"J","r","n","l">>>>>> }

SampleBibEntries ==
    { BibOf(i, a, d, t[1], t[2], t[3]) :
        i \in BibIds, a \in BibPersNames, d \in BibDates, t \in BibTitles }

\* the targets a citation marker of entry i may carry
MarkerAttrs(i) ==
    { [type |-> <<"b","i","b","r">>],
      [type |-> <<"b","i","b","r">>, target |-> <<>>],
      [type |-> <<"b","i","b","r">>, target |-> <<"#">> \o i],
      [type |-> <<"b","i","b","r">>, target |-> i],
      [type |-> <<"b","i","b","r">>, target |-> <<"#", "#">> \o i],
      [type |-> <<"b","i","b","r">>, target |-> <<"#","z","z">>] }

\* the full entry b0, one more entry e and one citation marker in a paragraph
CitationDoc(e, at) ==
    Doc(<<Div(<<"M","e","t","h","o","d","s">>, <<P(<<"a">>, <<El("ref", at, <<" ","5","9"," ">>, <<>>, <<"y">>)>>)>>)>>,
        <<BibOf(<<"b","0">>, << <<<<"R","o","e">>>> >>, <<>>, <<<<"T","i","t","l","e">>>>, <<>>, <<>>), e>>)

\* every entry with a marker that targets it; the entries b59 with every marker
DocsCitations ==
    { CitationDoc(e, [type |-> <<"b","i","b","r">>, target |-> <<"#">> \o e.xml_id]) :
        e \in SampleBibEntries }
    \cup
    { CitationDoc(e, at) :
        e \in {x \in SampleBibEntries : x.xml_id = <<"b","5","9">>}, at \in MarkerAttrs(<<"b","5","9">>) }

\* front matter: the title, the authors and the abstract present, blank or absent
FrontTitles == { <<>>, <<<<"E", "x", "a", "m", "p", "l", "e", " ", "P", "a", "p", "e", "r">>>>, <<<<" ", " ">>>> }

FrontPersNames ==
    { <<>>,
      <<[forename |-> <<<<"J", "a", "n", "e">>>>, surname |-> <<<<"D", "o", "e">>>>]>>,
      <<[forename |-> <<>>, surname |-> <<<<" ">>>>]>>,
      <<[forename |-> <<<<"J", "a", "n", "e">>>>, surname |-> <<<<"D", "o", "e">>>>], [forename |-> <<>>, surname |-> <<<<"R", "o", "e">>>>]>> }

FrontAbstracts ==
    { <<>>,
      <<P(<<"W", "e", " ", "s", "t", "u", "d", "y", " ", "X", ".">>, <<>>)>>,
      <<P(<<"W", "e", " ", "s", "t", "u", "d", "y", " ", "X", ".">>, <<>>), P(<<"I", "t", " ", "w", "o", "r", "k", "s", ".">>, <<>>)>> }

\* bodies: none, one without sections, one and two sections with markers
FrontBodies ==
    { [present |-> FALSE, kids |-> <<>>],
      [present |-> TRUE, kids |-> SampleNotes],
      [present |-> TRUE,
       kids |-> <<Div(<<"M", "e", "t", "h", "o", "d", "s">>, <<P(<<"a">>, <<BibrRef(<<"#", "b", "1">>, <<"[", "1", "]">>, <<>>)>>)>>)>> \o SampleNotes],
      [present |-> TRUE,
       kids |-> <<Div(<<"M", "e", "t", "h", "o", "d", "s">>, <<P(<<"a">>, <<FootRef(<<"#", "f", "1">>, <<>>)>>)>>),
                  Div(<<"R", "e", "s", "u", "l", "t", "s">>, <<P(<<"b">>, <<FootRef(<<"#", "f", "2">>, <<>>)>>)>>)>> \o SampleNotes] }

DocsFront ==
    { [title_main |-> t, persNames |-> a, abstract_ps |-> ab, body |-> b, bibls |-> r,
        well_formed |-> TRUE] :
        t \in FrontTitles, a \in FrontPersNames, ab \in FrontAbstracts, b \in FrontBodies,
        r \in {<<>>, SampleBibls} }

\* the documents of the calls that follow or interleave with one another
DocsCalls ==
    { Doc(<<Div(<<"M", "e", "t", "h", "o", "d", "s">>, <<P(<<"a">>, <<FootRef(<<"#", "f", "1">>, <<>>)>>)>>)>>, SampleBibls),
      Doc(<<Div(<<"M", "e", "t", "h", "o", "d", "s">>, <<P(<<"a">>, <<FootRef(<<"#", "f", "2">>, <<>>), FootRef(<<"#", "f", "1">>, <<"x">>)>>)>>),
            Div(<<"R", "e", "s", "u", "l", "t", "s">>, <<P(<<"b">>, <<FootRef(<<"#", "f", "3">>, <<>>), FootRef(<<"#", "f", "2">>, <<>>)>>)>>)>>, <<>>),
      Doc(<<Div(<<>>, <<P(<<>>, <<FootRef(<<"#", "f", "z">>, <<>>), FootRef(<<"#", "f", "2">>, <<>>),
                                  BibrRef(<<"#", "b", "1">>, <<"[", "1", "]">>, <<>>)>>)>>)>>, SampleBibls) }

\* sections nested k deep below a top-level section, each headed "L<level>";
\* the innermost one ends with what extras holds
RECURSIVE Chain(_, _, _, _)
Chain(j, k, n, extras) ==
    El("div", NoAttrs, <<"\n">>,
       <<Head_(n, <<"L">> \o str_int(j)), P(<<"a">>, <<>>)>>
         \o (IF j < k THEN <<Chain(j + 1, k, n, extras)>> ELSE extras),
       <<"\n">>)

\* a heading below a noise node and one below generic containers of the
\* innermost section
ChainExtras(n) ==
    { <<>>,
      <<El("figure", NoAttrs, <<>>, <<Head_(n, <<"F", "i", "g">>)>>, <<>>)>>,
      <<El("list", NoAttrs, <<>>, <<El("item", NoAttrs, <<>>, <<Head_(n, <<" ", "I", "t", "e", "m", "s", "\n">>)>>, <<>>)>>, <<>>)>> }

DocsDeep ==
    { Doc(<<Chain(0, k, n, x)>>, <<>>) :
        k \in 0..MaxDepth, n \in {<<>>, <<"2", ".", "1">>}, x \in ChainExtras(<<>>) \cup ChainExtras(<<"7">>) }

\* notes with and without an id, a text and the footnote placement; one has
\* its text in child elements, one is declared inside a paragraph
NotePalette ==
    { Note(<<"f", "1">>, <<"s", "e", "e", " ", "n", "1">>),
      Note(<<"f", "1">>, <<"a", "g", "a", "i", "n">>),
      Note(<<"f", "2">>, <<" ", "\n", "\t">>),
      Note(<<"f", "2">>, <<>>),
      Note(<<>>, <<"n", "o", " ", "i", "d">>),
      El("note", [place |-> <<"f", "o", "o", "t">>], <<"n", "o", " ", "i", "d", " ", "a", "t", "t", "r", "i", "b", "u", "t", "e">>, <<>>, <<>>),
      El("note", ("xml:id" :> <<"f", "3">>) @@ [place |-> <<"e", "n", "d">>], <<"e", "n", "d", " ", "n", "o", "t", "e">>, <<>>, <<>>),
      El("note", ("xml:id" :> <<"f", "3">>), <<"n", "o", " ", "p", "l", "a", "c", "e">>, <<>>, <<>>),
      El("note", ("xml:id" :> <<"f", "4">>) @@ [place |-> <<"f", "o", "o", "t">>], <<" ">>,
         <<El("hi", NoAttrs, <<"i", "n">>, <<>>, <<" ", "s", "i", "d", "e", "\n">>)>>, <<>>),
      El("note", ("xml:id" :> <<"f", "5">>) @@ [place |-> <<"f", "o", "o", "t">>], <<>>,
         <<El("hi", NoAttrs, <<>>, <<>>, <<" ">>)>>, <<>>),
      P(<<"b">>, <<Note(<<"f", "6">>, <<"i", "n", "l", "i", "n", "e">>)>>) }

\* a section with markers of f1, f2 and f4, followed by up to two notes
DocsNotes ==
    { [Doc(<<>>, <<>>) EXCEPT
         !.body.kids =
            <<Div(<<"M", "e", "t", "h", "o", "d", "s">>, <<P(<<"a">>, <<FootRef(<<"#", "f", "1">>, <<>>), FootRef(<<"#", "f", "2">>, <<>>),
                                           FootRef(<<"#", "f", "4">>, <<>>)>>)>>)>> \o ns] :
        ns \in SeqsUpTo(NotePalette, 2) }

\* sections with one or two heading children, and a heading that is the child
\* of a list item rather than of the section
HeadingPairs == { <<"M", "e", "t", "h", "o", "d", "s">>, <<"C", "o", "n", "c", "l", "u", "s", "i", "o", "n">>, <<" ", "D", "i", "s", "c", "u", "s", "s", "i", "o", "n", "\n">>, <<"A", ".", " ", "P", "r", "o", "o", "f", "s">>, <<"R", "e", "s", "u", "l", "t", "s">> }

DocsTwoHeads ==
    { Doc(<<El("div", NoAttrs, <<"\n">>,
               <<Head_(<<>>, h1), P(<<"a">>, <<>>)>>
                 \o (IF h2 = <<>> THEN <<>> ELSE <<Head_(<<>>, h2), P(<<"b">>, <<>>)>>),
               <<"\n">>)>>, <<>>) :
        h1 \in HeadingPairs, h2 \in HeadingPairs \cup {<<>>} }
    \cup { Doc(<<Div(<<"M", "e", "t", "h", "o", "d", "s">>,
                     <<El("list", NoAttrs, <<>>,
                          <<El("item", NoAttrs, <<>>, <<Head_(<<>>, h), P(<<"c">>, <<>>)>>, <<>>)>>,
                          <<>>)>>)>>, <<>>) :
             h \in HeadingPairs }

\* subtrees the renderer skips, each holding a paragraph with a footnote
\* marker: sections with an excluded heading and noise nodes
SkippedSubtrees ==
    { Div(h, <<P(<<"N">>, <<FootRef(<<"#">> \o f, <<>>)>>)>>) :
        h \in { <<"C", "o", "n", "c", "l", "u", "s", "i", "o", "n">>, <<"R", "E", "L", "A", "T", "E", "D", " ", "W", "O", "R", "K">>, <<"A", "p", "p", "e", "n", "d", "i", "x", " ", "B">>, <<"A", ".", " ", "P", "r", "o", "o", "f", " ", "o", "f", " ", "T", "h", "e", "o", "r", "e", "m", " ", "1">> },
        f \in { <<"f", "1">>, <<"f", "3">> } }
    \cup { El(t, NoAttrs, <<"N">>, <<P(<<"N">>, <<FootRef(<<"#">> \o f, <<>>)>>)>>, <<>>) :
             t \in SKIP_TAGS, f \in { <<"f", "1">>, <<"f", "3">> } }

\* a section with a skipped subtree before and after a paragraph with the
\* markers of f2 and f1, followed by a section with a marker of f3
DocsSkipped ==
    { Doc(<<Div(<<"M", "e", "t", "h", "o", "d", "s">>, <<s1, P(<<"a">>, <<FootRef(<<"#", "f", "2">>, <<>>), FootRef(<<"#", "f", "1">>, <<>>)>>), s2>>),
            Div(<<"R", "e", "s", "u", "l", "t", "s">>, <<P(<<"b">>, <<FootRef(<<"#", "f", "3">>, <<>>)>>)>>)>>, <<>>) :
        s1 \in SkippedSubtrees,
        s2 \in { s \in SkippedSubtrees :
                   s.tag \in {"div", "figure"} /\ descendants(s)[Len(descendants(s))].attrs.target = <<"#", "f", "3">> } }

(***************************************************************************)
(* The steps of extract_markdown.                                          *)
(***************************************************************************)
\* a mutant of ParseTables: the parser recovers from input that is not
\* well-formed
ParseTables_recovering ==
    /\ pc = "start"
    /\ output_dir' = TRUE
    /\ refs' = _parse_references(doc)
    /\ footnotes' = _parse_footnotes(doc)
    /\ pc' = "front"
    /\ UNCHANGED <<doc, md, footnote_counters, used_footnotes, div_i, output_file, calls, other, downloader_vars, converter_vars, fetcher_vars>>

\* the output directory is made; etree.parse, _parse_references,
\* _parse_footnotes
ParseTables ==
    /\ pc = "start"
    /\ doc.well_formed
    /\ output_dir' = TRUE
    /\ refs' = _parse_references(doc)
    /\ footnotes' = _parse_footnotes(doc)
    /\ pc' = "front"
    /\ UNCHANGED <<doc, md, footnote_counters, used_footnotes, div_i, output_file, calls, other, downloader_vars, converter_vars, fetcher_vars>>

\* the output directory is made; etree.parse raises XMLSyntaxError, which
\* nothing catches
ParseError ==
    /\ pc = "start"
    /\ ~doc.well_formed
    /\ output_dir' = TRUE
    /\ pc' = "error"
    /\ UNCHANGED <<doc, refs, footnotes, md, footnote_counters, used_footnotes, div_i,
                   output_file, calls, other, downloader_vars, converter_vars, fetcher_vars>>

\* a mutant of FrontMatter: the counter map is not made anew for the call
FrontMatter_keeping_counters ==
    /\ pc = "front"
    /\ md' = front_matter(doc)
    /\ used_footnotes' = <<>>
    /\ div_i' = 1
    /\ pc' = "body"
    /\ UNCHANGED <<doc, refs, footnotes, footnote_counters, output_dir, output_file, calls, other, downloader_vars, converter_vars, fetcher_vars>>

\* a mutant of FrontMatter: the log is not made anew for the call
FrontMatter_keeping_log ==
    /\ pc = "front"
    /\ md' = front_matter(doc)
    /\ footnote_counters' = <<>>
    /\ div_i' = 1
    /\ pc' = "body"
    /\ UNCHANGED <<doc, refs, footnotes, used_footnotes, output_dir, output_file, calls, other, downloader_vars, converter_vars, fetcher_vars>>

\* title, authors, rule, abstract; the render state starts empty
FrontMatter ==
    /\ pc = "front"
    /\ md' = front_matter(doc)
    /\ footnote_counters' = <<>>
    /\ used_footnotes' = <<>>
    /\ div_i' = 1
    /\ pc' = "body"
    /\ UNCHANGED <<doc, refs, footnotes, output_dir, output_file, calls, other, downloader_vars, converter_vars, fetcher_vars>>

\* a mutant of RenderDiv: a footnote that has been numbered is taken out of
\* the Footnote table
RenderDiv_consuming ==
    /\ pc = "body"
    /\ div_i <= Len(body_divs(doc))
    /\ LET r == _element_to_markdown(body_divs(doc)[div_i], refs, footnotes,
                                     footnote_counters, used_footnotes, 0)
       IN  /\ md' = md \o r.out
           /\ footnote_counters' = r.fc
           /\ used_footnotes' = r.uf
           /\ footnotes' = SelectSeq(footnotes, LAMBDA e : ~dict_has(r.fc, e[1]))
    /\ div_i' = div_i + 1
    /\ UNCHANGED <<pc, doc, refs, output_dir, output_file, calls, other, downloader_vars, converter_vars, fetcher_vars>>

\* a mutant of RenderDiv: the divs of the body are rendered at depth 1
RenderDiv_from_depth_one ==
    /\ pc = "body"
    /\ div_i <= Len(body_divs(doc))
    /\ LET r == _element_to_markdown(body_divs(doc)[div_i], refs, footnotes,
                                     footnote_counters, used_footnotes, 1)
       IN  /\ md' = md \o r.out
           /\ footnote_counters' = r.fc
           /\ used_footnotes' = r.uf
    /\ div_i' = div_i + 1
    /\ UNCHANGED <<pc, doc, refs, footnotes, output_dir, output_file, calls, other, downloader_vars, converter_vars, fetcher_vars>>

\* one turn of the loop over the divs of the body
RenderDiv ==
    /\ pc = "body"
    /\ div_i <= Len(body_divs(doc))
    /\ LET r == _element_to_markdown(body_divs(doc)[div_i], refs, footnotes,
                                     footnote_counters, used_footnotes, 0)
       IN  /\ md' = md \o r.out
           /\ footnote_counters' = r.fc
           /\ used_footnotes' = r.uf
    /\ div_i' = div_i + 1
    /\ UNCHANGED <<pc, doc, refs, footnotes, output_dir, output_file, calls, other, downloader_vars, converter_vars, fetcher_vars>>

\* the Footnotes section, after the last div
EmitFootnotes ==
    /\ pc = "body"
    /\ div_i > Len(body_divs(doc))
    /\ md' = md \o footnotes_section(used_footnotes)
    /\ pc' = "references"
    /\ UNCHANGED <<doc, refs, footnotes, footnote_counters, used_footnotes, div_i,
                   output_dir, output_file, calls, other, downloader_vars, converter_vars, fetcher_vars>>

\* the References section; md is then returned to extract_markdown_to_file
EmitReferences ==
    /\ pc = "references"
    /\ md' = md \o references_section(refs)
    /\ pc' = "done"
    /\ UNCHANGED <<doc, refs, footnotes, footnote_counters, used_footnotes, div_i,
                   output_dir, output_file, calls, other, downloader_vars, converter_vars, fetcher_vars>>

\* output_path.write_text(md)
WriteFile ==
    /\ pc = "done"
    /\ output_file' = [exists |-> TRUE, text |-> md]
    /\ pc' = "written"
    /\ UNCHANGED <<doc, refs, footnotes, md, footnote_counters, used_footnotes, div_i,
                   output_dir, calls, other, downloader_vars, converter_vars, fetcher_vars>>

Next ==
    \/ ParseTables
    \/ ParseError
    \/ FrontMatter
    \/ RenderDiv
    \/ EmitFootnotes
    \/ EmitReferences
    \/ WriteFile

\* a file with the content of d that is not well-formed XML
Malformed(d) == [d EXCEPT !.well_formed = FALSE]

NoFile == [exists |-> FALSE, text |-> <<>>]

NoFrame == [pc |-> "none"]

\* self.max_retries of ingestion/downloader.py
DEFAULT_MAX_RETRIES == 3

\* the default of the max_retries argument of _fetch_batch
FETCH_MAX_RETRIES == 10

\* a converter that is not called
ConverterIdle ==
    /\ conv_pc = "idle"
    /\ xml_file = FALSE
    /\ conv_overwrite = FALSE
    /\ delete_pdf = FALSE
    /\ conv_stats = [successful |-> 0, failed |-> 0, skipped |-> 0]
    /\ conv_returned = [success |-> FALSE, message |-> "none"]
    /\ posts_sent = 0
    /\ conv_stats_before = conv_stats
    /\ conversions = 0

\* a client that is not called
FetcherIdle ==
    /\ fetch_impl = "client"
    /\ fetch_max_retries = FETCH_MAX_RETRIES
    /\ fetch_pc = "idle"
    /\ fetch_attempt = 0
    /\ fetch_response = "none"
    /\ fetch_returned = [papers |-> <<>>]
    /\ fetch_printed = "none"
    /\ fetch_requests = 0
    /\ batches = 0

\* a downloader that is not called
DownloaderIdle ==
    /\ impl = "ingestion"
    /\ max_retries = DEFAULT_MAX_RETRIES
    /\ stats = [successful |-> 0, failed |-> 0, skipped |-> 0, total_size |-> 0]
    /\ dl_pc = "idle"
    /\ url = FALSE
    /\ overwrite = FALSE
    /\ attempt = 0
    /\ pdf_file = "absent"
    /\ returned = [success |-> FALSE, message |-> "none"]
    /\ requests_sent = 0
    /\ stats_before = stats
    /\ downloads = 0

\* one call on a document of docs or on a malformed copy of one
InitOf(docs) ==
    /\ DownloaderIdle
    /\ ConverterIdle
    /\ FetcherIdle
    /\ doc \in docs \cup {Malformed(d) : d \in docs}
    /\ output_dir = FALSE
    /\ output_file = NoFile
    /\ calls = 0
    /\ other = NoFrame
    /\ pc = "start"
    /\ refs = <<>>
    /\ footnotes = <<>>
    /\ md = <<>>
    /\ footnote_counters = <<>>
    /\ used_footnotes = <<>>
    /\ div_i = 0

\* the renderer on bodies of footnote and citation markers, noise and sections
Init == InitOf(DocsOneDiv \cup DocsManyDivs \cup DocsNested \cup DocsNoise)

Spec == Init /\ [][Next]_vars

\* the Section Relevance Filter on sections of every heading
InitFilter == InitOf(DocsHeadings)

SpecFilter == InitFilter /\ [][Next]_vars

\* the Reference table and the citation markers that use it
InitRefs == InitOf(DocsCitations)

SpecRefs == InitRefs /\ [][Next]_vars

\* the locals of the running call
Frame ==
    [pc |-> pc, doc |-> doc, refs |-> refs, footnotes |-> footnotes, md |-> md,
     footnote_counters |-> footnote_counters, used_footnotes |-> used_footnotes,
     div_i |-> div_i]

\* the locals of a call on d that has not taken a step
StartFrame(d) ==
    [pc |-> "start", doc |-> d, refs |-> <<>>, footnotes |-> <<>>, md |-> <<>>,
     footnote_counters |-> <<>>, used_footnotes |-> <<>>, div_i |-> 0]

\* the running call is suspended and the suspended one runs: each call keeps
\* its own locals
Switch ==
    /\ other # NoFrame
    /\ other' = Frame
    /\ pc' = other.pc
    /\ doc' = other.doc
    /\ refs' = other.refs
    /\ footnotes' = other.footnotes
    /\ md' = other.md
    /\ footnote_counters' = other.footnote_counters
    /\ used_footnotes' = other.used_footnotes
    /\ div_i' = other.div_i
    /\ UNCHANGED <<output_dir, output_file, calls, downloader_vars, converter_vars, fetcher_vars>>

\* the caller that got a result or an error calls again, on any document;
\* the names of the locals are bound anew by the steps of the new call
NextCall ==
    /\ pc \in {"written", "error"}
    /\ calls < MaxCalls
    /\ calls' = calls + 1
    /\ doc' \in DocsCalls \cup {Malformed(d) : d \in DocsCalls}
    /\ pc' = "start"
    /\ UNCHANGED <<refs, footnotes, md, footnote_counters, used_footnotes, div_i,
                   output_dir, output_file, other, downloader_vars, converter_vars, fetcher_vars>>

NextCalls ==
    \/ Next
    \/ Switch
    \/ NextCall

\* two calls that interleave, each followed by further calls
InitCalls ==
    /\ DownloaderIdle
    /\ ConverterIdle
    /\ FetcherIdle
    /\ doc \in DocsCalls \cup {Malformed(d) : d \in DocsCalls}
    /\ other \in {StartFrame(d) : d \in DocsCalls \cup {Malformed(d) : d \in DocsCalls}}
    /\ output_dir = FALSE
    /\ output_file = NoFile
    /\ calls = 0
    /\ pc = "start"
    /\ refs = <<>>
    /\ footnotes = <<>>
    /\ md = <<>>
    /\ footnote_counters = <<>>
    /\ used_footnotes = <<>>
    /\ div_i = 0

SpecCalls == InitCalls /\ [][NextCalls]_vars

(***************************************************************************)
(* PDFDownloader.download_paper.  The class exists twice: in               *)
(* ingestion/downloader.py max_retries is always 3 and the try statement   *)
(* catches Timeout and RequestException; in extractor/downloader.py        *)
(* max_retries is an argument of the constructor and a third clause        *)
(* catches every other Exception.                                          *)
(***************************************************************************)
Impls == {"ingestion", "extractor"}

\* what the first four bytes of a file may be; "absent" when there is no file
FileStates == {"absent", "%PDF", "other"}

\* is_valid_pdf: the file opens and starts with the magic bytes
is_valid_pdf(file) == file = "%PDF"

\* filepath.stat().st_size of a downloaded PDF
FileSizes == {4, 5}

\* self.stats[key] += n
stats_add(s, key, n) == [s EXCEPT ![key] = @ + n]

\* a mutant of retry_or_fail: every failed attempt is counted
retry_or_fail_counting_each(s, a, message) ==
    IF a < max_retries - 1
    THEN [dl_pc |-> "loop", attempt |-> a + 1, stats |-> stats_add(s, "failed", 1),
          returned |-> returned]
    ELSE [dl_pc |-> "returned", attempt |-> a, stats |-> stats_add(s, "failed", 1),
          returned |-> [success |-> FALSE, message |-> message]]

\* the end of an attempt that may be repeated: "continue" unless it was the
\* last one, then the failure is counted and returned
retry_or_fail(s, a, message) ==
    IF a < max_retries - 1
    THEN [dl_pc |-> "loop", attempt |-> a + 1, stats |-> s, returned |-> returned]
    ELSE [dl_pc |-> "returned", attempt |-> a, stats |-> stats_add(s, "failed", 1),
          returned |-> [success |-> FALSE, message |-> message]]

\* the caller (download_papers_from_list, download_from_database, a test)
\* calls download_paper for a paper whose file is in any state
StartCall ==
    /\ dl_pc \in {"idle", "returned"}
    /\ conv_pc = "idle"
    /\ downloads < MaxDownloads
    /\ downloads' = downloads + 1
    /\ url' \in BOOLEAN
    /\ overwrite' \in BOOLEAN
    /\ pdf_file' \in FileStates
    /\ dl_pc' = "entry"
    /\ attempt' = 0
    /\ requests_sent' = 0
    /\ stats_before' = stats
    /\ UNCHANGED <<impl, max_retries, stats, returned, extractor_vars, converter_vars, fetcher_vars>>

\* "if not url"
NoUrl ==
    /\ dl_pc = "entry"
    /\ ~url
    /\ stats' = stats_add(stats, "skipped", 1)
    /\ returned' = [success |-> FALSE, message |-> "No URL provided"]
    /\ dl_pc' = "returned"
    /\ UNCHANGED <<impl, max_retries, url, overwrite, attempt, pdf_file, requests_sent,
                   stats_before, downloads, extractor_vars, converter_vars, fetcher_vars>>

\* the file is there, is not to be overwritten and is a PDF
AlreadyExists ==
    /\ dl_pc = "entry"
    /\ url
    /\ pdf_file # "absent" /\ ~overwrite
    /\ is_valid_pdf(pdf_file)
    /\ stats' = stats_add(stats, "skipped", 1)
    /\ returned' = [success |-> TRUE, message |-> "Already exists"]
    /\ dl_pc' = "returned"
    /\ UNCHANGED <<impl, max_retries, url, overwrite, attempt, pdf_file, requests_sent,
                   stats_before, downloads, extractor_vars, converter_vars, fetcher_vars>>

\* otherwise the loop over the attempts begins; a file that is there, is not
\* to be overwritten and is no PDF is deleted first
EnterLoop ==
    /\ dl_pc = "entry"
    /\ url
    /\ ~(pdf_file # "absent" /\ ~overwrite /\ is_valid_pdf(pdf_file))
    /\ pdf_file' = IF pdf_file # "absent" /\ ~overwrite THEN "absent" ELSE pdf_file
    /\ dl_pc' = "loop"
    /\ UNCHANGED <<impl, max_retries, stats, url, overwrite, attempt, returned, requests_sent,
                   stats_before, downloads, extractor_vars, converter_vars, fetcher_vars>>

\* requests.get answers 404 or 403
RespondNotFoundOrForbidden ==
    /\ dl_pc = "loop"
    /\ attempt < max_retries
    /\ requests_sent' = requests_sent + 1
    /\ stats' = stats_add(stats, "failed", 1)
    /\ \E message \in {"404 Not Found", "403 Forbidden"} :
         returned' = [success |-> FALSE, message |-> message]
    /\ dl_pc' = "returned"
    /\ UNCHANGED <<impl, max_retries, url, overwrite, attempt, pdf_file,
                   stats_before, downloads, extractor_vars, converter_vars, fetcher_vars>>

\* the answer is neither a PDF nor an octet stream
WrongContentType ==
    /\ dl_pc = "loop"
    /\ attempt < max_retries
    /\ requests_sent' = requests_sent + 1
    /\ stats' = stats_add(stats, "failed", 1)
    /\ returned' = [success |-> FALSE, message |-> "Not a PDF"]
    /\ dl_pc' = "returned"
    /\ UNCHANGED <<impl, max_retries, url, overwrite, attempt, pdf_file,
                   stats_before, downloads, extractor_vars, converter_vars, fetcher_vars>>

\* requests.get times out, or it or raise_for_status raises another
\* RequestException
RequestFails ==
    /\ dl_pc = "loop"
    /\ attempt < max_retries
    /\ requests_sent' = requests_sent + 1
    /\ \E message \in {"Timeout", "Request error"} :
         LET r == retry_or_fail(stats, attempt, message)
         IN  /\ dl_pc' = r.dl_pc
             /\ attempt' = r.attempt
             /\ stats' = r.stats
             /\ returned' = r.returned
    /\ UNCHANGED <<impl, max_retries, url, overwrite, pdf_file,
                   stats_before, downloads, extractor_vars, converter_vars, fetcher_vars>>

\* the connection breaks while the body is written: a RequestException with
\* the file left as far as it was written
StreamFails ==
    /\ dl_pc = "loop"
    /\ attempt < max_retries
    /\ requests_sent' = requests_sent + 1
    /\ pdf_file' \in {"%PDF", "other"}
    /\ LET r == retry_or_fail(stats, attempt, "Request error")
       IN  /\ dl_pc' = r.dl_pc
           /\ attempt' = r.attempt
           /\ stats' = r.stats
           /\ returned' = r.returned
    /\ UNCHANGED <<impl, max_retries, url, overwrite,
                   stats_before, downloads, extractor_vars, converter_vars, fetcher_vars>>

\* an exception that is no RequestException: int() of a content-length that
\* is not a number (ValueError), open() or write() failing (OSError).
\* extractor/downloader.py catches it and repeats the attempt;
\* ingestion/downloader.py has no clause for it and the exception leaves
\* download_paper
OtherError ==
    /\ dl_pc = "loop"
    /\ attempt < max_retries
    /\ requests_sent' = requests_sent + 1
    /\ IF impl = "extractor"
       THEN LET r == retry_or_fail(stats, attempt, "Unexpected error")
            IN  /\ dl_pc' = r.dl_pc
                /\ attempt' = r.attempt
                /\ stats' = r.stats
                /\ returned' = r.returned
       ELSE /\ dl_pc' = "raised"
            /\ UNCHANGED <<attempt, stats, returned>>
    /\ UNCHANGED <<impl, max_retries, url, overwrite, pdf_file,
                   stats_before, downloads, extractor_vars, converter_vars, fetcher_vars>>

\* the body is written and does not start with %PDF: the file is deleted
DownloadInvalid ==
    /\ dl_pc = "loop"
    /\ attempt < max_retries
    /\ requests_sent' = requests_sent + 1
    /\ pdf_file' = "absent"
    /\ LET r == retry_or_fail(stats, attempt, "Downloaded file is not a valid PDF")
       IN  /\ dl_pc' = r.dl_pc
           /\ attempt' = r.attempt
           /\ stats' = r.stats
           /\ returned' = r.returned
    /\ UNCHANGED <<impl, max_retries, url, overwrite,
                   stats_before, downloads, extractor_vars, converter_vars, fetcher_vars>>

\* the body is written and is a PDF
DownloadValid ==
    /\ dl_pc = "loop"
    /\ attempt < max_retries
    /\ requests_sent' = requests_sent + 1
    /\ pdf_file' = "%PDF"
    /\ \E file_size \in FileSizes :
         stats' = stats_add(stats_add(stats, "successful", 1), "total_size", file_size)
    /\ returned' = [success |-> TRUE, message |-> "Downloaded"]
    /\ dl_pc' = "returned"
    /\ UNCHANGED <<impl, max_retries, url, overwrite, attempt,
                   stats_before, downloads, extractor_vars, converter_vars, fetcher_vars>>

\* range(max_retries) is used up without a return: the statements after the
\* loop
LoopExhausted ==
    /\ dl_pc = "loop"
    /\ attempt >= max_retries
    /\ stats' = stats_add(stats, "failed", 1)
    /\ returned' = [success |-> FALSE, message |-> "Failed after max_retries attempts"]
    /\ dl_pc' = "returned"
    /\ UNCHANGED <<impl, max_retries, url, overwrite, attempt, pdf_file, requests_sent,
                   stats_before, downloads, extractor_vars, converter_vars, fetcher_vars>>

NextDownload ==
    \/ StartCall
    \/ NoUrl
    \/ AlreadyExists
    \/ EnterLoop
    \/ RespondNotFoundOrForbidden
    \/ WrongContentType
    \/ RequestFails
    \/ StreamFails
    \/ OtherError
    \/ DownloadInvalid
    \/ DownloadValid
    \/ LoopExhausted

\* an extractor that is not called
ExtractorIdle ==
    /\ pc = "idle"
    /\ doc = <<>>
    /\ refs = <<>>
    /\ footnotes = <<>>
    /\ md = <<>>
    /\ footnote_counters = <<>>
    /\ used_footnotes = <<>>
    /\ div_i = 0
    /\ output_dir = FALSE
    /\ output_file = NoFile
    /\ calls = 0
    /\ other = NoFrame

\* a new downloader of either class
InitDownload ==
    /\ ExtractorIdle
    /\ ConverterIdle
    /\ FetcherIdle
    /\ impl \in Impls
    /\ max_retries \in (IF impl = "ingestion" THEN {DEFAULT_MAX_RETRIES} ELSE 0..MaxRetries)
    /\ stats = [successful |-> 0, failed |-> 0, skipped |-> 0, total_size |-> 0]
    /\ dl_pc = "idle"
    /\ url = FALSE
    /\ overwrite = FALSE
    /\ attempt = 0
    /\ pdf_file = "absent"
    /\ returned = [success |-> FALSE, message |-> "none"]
    /\ requests_sent = 0
    /\ stats_before = stats
    /\ downloads = 0

SpecDownload == InitDownload /\ [][NextDownload]_vars

\* a call that has begun goes on: every requests.get ends, by its timeout at
\* the latest
SpecDownloadLive == SpecDownload /\ WF_vars(NextDownload)

(***************************************************************************)
(* GrobidConverter.convert_pdf.  main.py runs the download stage before    *)
(* the conversion stage; the PDF of a conversion is a file of the          *)
(* downloader's directory.                                                 *)
(***************************************************************************)
\* pdf_path.unlink() under "if delete_pdf", its failure ignored
after_unlink(file, delete) == IF delete THEN {"absent", file} ELSE {file}

\* convert_from_database, convert_directory or a test calls convert_pdf for
\* a paper whose files are in any state
StartConvert ==
    /\ conv_pc \in {"idle", "returned"}
    /\ dl_pc \in {"idle", "returned"}
    /\ conversions < MaxConversions
    /\ conversions' = conversions + 1
    /\ pdf_file' \in FileStates
    /\ xml_file' \in BOOLEAN
    /\ conv_overwrite' \in BOOLEAN
    /\ delete_pdf' \in BOOLEAN
    /\ conv_pc' = "entry"
    /\ posts_sent' = 0
    /\ conv_stats_before' = conv_stats
    /\ UNCHANGED <<conv_stats, conv_returned>>
    /\ UNCHANGED <<impl, max_retries, stats, dl_pc, url, overwrite, attempt, returned,
                   requests_sent, stats_before, downloads, extractor_vars, fetcher_vars>>

\* "if not pdf_path.exists()"
PdfNotFound ==
    /\ conv_pc = "entry"
    /\ pdf_file = "absent"
    /\ conv_stats' = stats_add(conv_stats, "failed", 1)
    /\ conv_returned' = [success |-> FALSE, message |-> "PDF not found"]
    /\ conv_pc' = "returned"
    /\ UNCHANGED <<xml_file, conv_overwrite, delete_pdf, posts_sent, conv_stats_before,
                   conversions, downloader_vars, extractor_vars, fetcher_vars>>

\* a mutant of AlreadyConverted: the skipped conversion is counted as a
\* successful one
AlreadyConverted_counted_successful ==
    /\ conv_pc = "entry"
    /\ pdf_file # "absent"
    /\ xml_file /\ ~conv_overwrite
    /\ conv_stats' = stats_add(conv_stats, "successful", 1)
    /\ pdf_file' \in after_unlink(pdf_file, delete_pdf)
    /\ conv_returned' = [success |-> TRUE, message |-> "Already converted"]
    /\ conv_pc' = "returned"
    /\ UNCHANGED <<xml_file, conv_overwrite, delete_pdf, posts_sent, conv_stats_before,
                   conversions>>
    /\ UNCHANGED <<impl, max_retries, stats, dl_pc, url, overwrite, attempt, returned,
                   requests_sent, stats_before, downloads, extractor_vars, fetcher_vars>>

\* "if output_path.exists() and not overwrite"
AlreadyConverted ==
    /\ conv_pc = "entry"
    /\ pdf_file # "absent"
    /\ xml_file /\ ~conv_overwrite
    /\ conv_stats' = stats_add(conv_stats, "skipped", 1)
    /\ pdf_file' \in after_unlink(pdf_file, delete_pdf)
    /\ conv_returned' = [success |-> TRUE, message |-> "Already converted"]
    /\ conv_pc' = "returned"
    /\ UNCHANGED <<xml_file, conv_overwrite, delete_pdf, posts_sent, conv_stats_before,
                   conversions>>
    /\ UNCHANGED <<impl, max_retries, stats, dl_pc, url, overwrite, attempt, returned,
                   requests_sent, stats_before, downloads, extractor_vars, fetcher_vars>>

\* the conversion is attempted
ToConvert ==
    /\ conv_pc = "entry"
    /\ pdf_file # "absent"
    /\ ~(xml_file /\ ~conv_overwrite)

\* requests.post answers 200: the XML is written
Converted ==
    /\ ToConvert
    /\ posts_sent' = posts_sent + 1
    /\ xml_file' = TRUE
    /\ conv_stats' = stats_add(conv_stats, "successful", 1)
    /\ pdf_file' \in after_unlink(pdf_file, delete_pdf)
    /\ conv_returned' = [success |-> TRUE, message |-> "Converted"]
    /\ conv_pc' = "returned"
    /\ UNCHANGED <<conv_overwrite, delete_pdf, conv_stats_before, conversions>>
    /\ UNCHANGED <<impl, max_retries, stats, dl_pc, url, overwrite, attempt, returned,
                   requests_sent, stats_before, downloads, extractor_vars, fetcher_vars>>

\* requests.post answers 503 or another status
GrobidRefuses ==
    /\ ToConvert
    /\ posts_sent' = posts_sent + 1
    /\ conv_stats' = stats_add(conv_stats, "failed", 1)
    /\ \E message \in {"GROBID service unavailable (503)", "GROBID error"} :
         conv_returned' = [success |-> FALSE, message |-> message]
    /\ conv_pc' = "returned"
    /\ UNCHANGED <<xml_file, conv_overwrite, delete_pdf, conv_stats_before,
                   conversions, downloader_vars, extractor_vars, fetcher_vars>>

\* requests.post times out, or open() or requests.post raises another
\* exception
ConversionRaises ==
    /\ ToConvert
    /\ posts_sent' \in {posts_sent, posts_sent + 1}
    /\ conv_stats' = stats_add(conv_stats, "failed", 1)
    /\ \E message \in {"Conversion timeout (>5 min)", "Error"} :
         /\ message = "Conversion timeout (>5 min)" => posts_sent' = posts_sent + 1
         /\ conv_returned' = [success |-> FALSE, message |-> message]
    /\ conv_pc' = "returned"
    /\ UNCHANGED <<xml_file, conv_overwrite, delete_pdf, conv_stats_before,
                   conversions, downloader_vars, extractor_vars, fetcher_vars>>

NextConvert ==
    \/ StartConvert
    \/ PdfNotFound
    \/ AlreadyConverted
    \/ Converted
    \/ GrobidRefuses
    \/ ConversionRaises

\* the download stage followed by the conversion stage
NextStages == NextDownload \/ NextConvert

SpecStages == InitDownload /\ [][NextStages]_vars

(***************************************************************************)
(* SemanticScholarClient._fetch_batch.  The class exists twice:            *)
(* pubfetcher/client.py returns (papers, total, error) and has a clause    *)
(* for Timeout; pubfetcher/fetching.py returns (papers, total) and prints  *)
(* the error.  A 200 answer carries the JSON object of the API or a body   *)
(* that is no JSON.                                                        *)
(***************************************************************************)
FetchImpls == {"client", "fetching"}

\* what a request ends in
FetchResponses == {"200", "bad json", "429", "5xx", "4xx", "timeout", "network error"}

\* "return [], 0, message" in client.py; print(message) and "return [], 0"
\* in fetching.py
fetch_failure(message) ==
    IF fetch_impl = "client"
    THEN [returned |-> [papers |-> <<>>, total |-> 0, error |-> message],
          printed  |-> fetch_printed]
    ELSE [returned |-> [papers |-> <<>>, total |-> 0], printed |-> message]

\* a mutant of fetch_retry_or_fail: the last attempt is repeated as well
fetch_retry_or_fail_once_more(a, message) ==
    IF a < fetch_max_retries
    THEN [fetch_pc |-> "loop", fetch_attempt |-> a + 1,
          returned |-> fetch_returned, printed |-> fetch_printed]
    ELSE [fetch_pc |-> "returned", fetch_attempt |-> a,
          returned |-> fetch_failure(message).returned,
          printed  |-> fetch_failure(message).printed]

\* the end of an attempt that may be repeated: the wait and the next attempt
\* unless it was the last one, then the failure
fetch_retry_or_fail(a, message) ==
    IF a < fetch_max_retries - 1
    THEN [fetch_pc |-> "loop", fetch_attempt |-> a + 1,
          returned |-> fetch_returned, printed |-> fetch_printed]
    ELSE [fetch_pc |-> "returned", fetch_attempt |-> a,
          returned |-> fetch_failure(message).returned,
          printed  |-> fetch_failure(message).printed]

\* search_papers calls _fetch_batch for the next batch
StartBatch ==
    /\ fetch_pc \in {"idle", "returned"}
    /\ batches < MaxBatches
    /\ batches' = batches + 1
    /\ fetch_max_retries' \in {FETCH_MAX_RETRIES} \cup 0..MaxFetchRetries
    /\ fetch_pc' = "loop"
    /\ fetch_attempt' = 0
    /\ fetch_requests' = 0
    /\ fetch_response' = "none"
    /\ fetch_printed' = "none"
    /\ UNCHANGED <<fetch_impl, fetch_returned, extractor_vars, downloader_vars, converter_vars>>

\* requests.get answers 200 with the JSON object of the API
FetchSucceeds ==
    /\ fetch_pc = "loop"
    /\ fetch_attempt < fetch_max_retries
    /\ fetch_requests' = fetch_requests + 1
    /\ fetch_response' = "200"
    /\ \E result \in {[papers |-> <<>>, total |-> 0], [papers |-> <<"paper">>, total |-> 1]} :
         fetch_returned' = IF fetch_impl = "client"
                           THEN [papers |-> result.papers, total |-> result.total, error |-> "None"]
                           ELSE result
    /\ fetch_pc' = "returned"
    /\ UNCHANGED <<fetch_impl, fetch_max_retries, fetch_attempt, fetch_printed, batches,
                   extractor_vars, downloader_vars, converter_vars>>

\* a 4xx answer other than 429
FetchClientError ==
    /\ fetch_pc = "loop"
    /\ fetch_attempt < fetch_max_retries
    /\ fetch_requests' = fetch_requests + 1
    /\ fetch_response' = "4xx"
    /\ fetch_returned' = fetch_failure("Client error").returned
    /\ fetch_printed' = fetch_failure("Client error").printed
    /\ fetch_pc' = "returned"
    /\ UNCHANGED <<fetch_impl, fetch_max_retries, fetch_attempt, batches,
                   extractor_vars, downloader_vars, converter_vars>>

\* a 429 or 5xx answer, a timeout or another RequestException
FetchRetryable ==
    /\ fetch_pc = "loop"
    /\ fetch_attempt < fetch_max_retries
    /\ fetch_requests' = fetch_requests + 1
    /\ \E r \in {[response |-> "429", message |-> "Rate limited"],
                 [response |-> "5xx", message |-> "Server error"],
                 [response |-> "timeout", message |-> "Timeout"],
                 [response |-> "network error", message |-> "Network error"]} :
         LET e == fetch_retry_or_fail(fetch_attempt, r.message)
         IN  /\ fetch_response' = r.response
             /\ fetch_pc' = e.fetch_pc
             /\ fetch_attempt' = e.fetch_attempt
             /\ fetch_returned' = e.returned
             /\ fetch_printed' = e.printed
    /\ UNCHANGED <<fetch_impl, fetch_max_retries, batches,
                   extractor_vars, downloader_vars, converter_vars>>

\* a 200 answer whose body is no JSON.  The JSONDecodeError of requests is a
\* RequestException and a json.JSONDecodeError: the first clause that names
\* one of them handles it.  client.py returns at once from its clause for
\* json.JSONDecodeError when the installed requests raises that one alone
FetchBadJson ==
    /\ fetch_pc = "loop"
    /\ fetch_attempt < fetch_max_retries
    /\ fetch_requests' = fetch_requests + 1
    /\ fetch_response' = "bad json"
    /\ \E e \in {fetch_retry_or_fail(fetch_attempt, "Network error")}
                  \cup (IF fetch_impl = "client"
                        THEN {[fetch_pc |-> "returned", fetch_attempt |-> fetch_attempt,
                               returned |-> fetch_failure("JSON parse error").returned,
                               printed  |-> fetch_failure("JSON parse error").printed]}
                        ELSE {}) :
         /\ fetch_pc' = e.fetch_pc
         /\ fetch_attempt' = e.fetch_attempt
         /\ fetch_returned' = e.returned
         /\ fetch_printed' = e.printed
    /\ UNCHANGED <<fetch_impl, fetch_max_retries, batches,
                   extractor_vars, downloader_vars, converter_vars>>

\* range(max_retries) is used up without a return: the statement after the
\* loop
FetchLoopExhausted ==
    /\ fetch_pc = "loop"
    /\ fetch_attempt >= fetch_max_retries
    /\ fetch_returned' = IF fetch_impl = "client"
                         THEN [papers |-> <<>>, total |-> 0, error |-> "Max retries exhausted"]
                         ELSE [papers |-> <<>>, total |-> 0]
    /\ fetch_pc' = "returned"
    /\ UNCHANGED <<fetch_impl, fetch_max_retries, fetch_attempt, fetch_response, fetch_printed,
                   fetch_requests, batches, extractor_vars, downloader_vars, converter_vars>>

NextFetch ==
    \/ StartBatch
    \/ FetchSucceeds
    \/ FetchClientError
    \/ FetchRetryable
    \/ FetchBadJson
    \/ FetchLoopExhausted

\* a new client of either class
InitFetch ==
    /\ ExtractorIdle
    /\ DownloaderIdle
    /\ ConverterIdle
    /\ fetch_impl \in FetchImpls
    /\ fetch_max_retries = FETCH_MAX_RETRIES
    /\ fetch_pc = "idle"
    /\ fetch_attempt = 0
    /\ fetch_response = "none"
    /\ fetch_returned = [papers |-> <<>>]
    /\ fetch_printed = "none"
    /\ fetch_requests = 0
    /\ batches = 0

SpecFetch == InitFetch /\ [][NextFetch]_vars

\* a call that has begun goes on: every requests.get ends, by its timeout at
\* the latest, and every wait ends
SpecFetchLive == SpecFetch /\ WF_vars(NextFetch)

\* the assembler on documents with and without each part
InitFront == InitOf(DocsFront)

SpecFront == InitFront /\ [][Next]_vars

\* headings at every depth of nesting
InitDeep == InitOf(DocsDeep)

SpecDeep == InitDeep /\ [][Next]_vars

\* the Footnote table of documents with notes of every kind
InitNotes == InitOf(DocsNotes)

SpecNotes == InitNotes /\ [][Next]_vars

\* sections with more than one heading
InitHeads == InitOf(DocsTwoHeads)

SpecHeads == InitHeads /\ [][Next]_vars

\* footnote markers in the subtrees the renderer skips
InitSkipped == InitOf(DocsSkipped)

SpecSkipped == InitSkipped /\ [][Next]_vars

(***************************************************************************)
(* What the properties speak of.                                           *)
(***************************************************************************)
\* the id a marker points to: its target without the leading "#"
TargetId(el) == lstrip_chars(attr_get(el, "target", <<>>), {"#"})

IsFootMarker(el) == el.tag = "ref" /\ attr_get(el, "type", <<>>) = <<"f","o","o","t">>

IsCitationMarker(el) == el.tag = "ref" /\ attr_get(el, "type", <<>>) = <<"b","i","b","r">>

\* a section container whose heading satisfies the Section Relevance Filter
SectionExcluded(el) ==
    /\ el.tag = "div"
    /\ find_head(el) # <<>>
    /\ _is_excluded_section(strip(itertext(find_head(el)[1])))

\* the resolvable footnote ids the traversal of el meets, in document order:
\* noise nodes and excluded sections are not entered, headings and citation
\* markers are leaves
RECURSIVE FootnotesMet(_, _)
FootnotesMet(el, table) ==
    LET RECURSIVE over(_)
        over(ks) == IF ks = <<>> THEN <<>> ELSE FootnotesMet(Head(ks), table) \o over(Tail(ks))
    IN  IF el.tag \in SKIP_TAGS \/ el.tag = "head" \/ SectionExcluded(el) \/ IsCitationMarker(el)
        THEN <<>>
        ELSE IF IsFootMarker(el)
        THEN IF dict_has(table, TargetId(el)) THEN <<TargetId(el)>> ELSE <<>>
        ELSE over(el.kids)

\* the ids met in the divs rendered so far
RECURSIVE MetInDivs(_)
MetInDivs(n) ==
    IF n = 0 THEN <<>> ELSE MetInDivs(n - 1) \o FootnotesMet(body_divs(doc)[n], footnotes)

Rendering == pc \in {"body", "references", "done"}

MetSoFar == IF Rendering THEN MetInDivs(div_i - 1) ELSE <<>>

\* a sequence without the repetitions of its elements
RECURSIVE FirstOccurrences(_)
FirstOccurrences(q) ==
    IF q = <<>> THEN <<>>
    ELSE LET front == FirstOccurrences(SubSeq(q, 1, Len(q) - 1))
         IN  IF \E i \in 1..Len(front) : front[i] = q[Len(q)] THEN front
             ELSE Append(front, q[Len(q)])

IndexIn(q, x) == CHOOSE i \in 1..Len(q) : q[i] = x

DigitValue(c) == (CHOOSE i \in 1..Len(Digits) : Digits[i] = c) - 1

RECURSIVE NatOf(_)
NatOf(ds) ==
    IF ds = <<>> THEN 0
    ELSE 10 * NatOf(SubSeq(ds, 1, Len(ds) - 1)) + DigitValue(ds[Len(ds)])

\* the end of the "[^digits]" that starts at place i of t, 0 when none does
MarkerEnd(t, i) ==
    IF i + 3 <= Len(t) /\ t[i] = "[" /\ t[i + 1] = "^"
    THEN LET ends == {j \in (i + 3)..Len(t) :
                        t[j] = "]" /\ \A m \in (i + 2)..(j - 1) : IsDigit(t[m])}
         IN  IF ends = {} THEN 0 ELSE CHOOSE j \in ends : TRUE
    ELSE 0

\* the elements of a set of numbers in increasing order
RECURSIVE Ascending(_)
Ascending(S) ==
    IF S = {} THEN <<>>
    ELSE LET lo == CHOOSE x \in S : \A y \in S : x <= y
         IN  <<lo>> \o Ascending(S \ {lo})

\* the "[^n]" of a text in order: n, and whether ":" follows (a definition)
ScanMarkers(t) ==
    LET starts == Ascending({i \in 1..Len(t) : MarkerEnd(t, i) # 0})
    IN  [k \in 1..Len(starts) |->
           LET i == starts[k]
               j == MarkerEnd(t, i)
           IN  [n |-> NatOf(SubSeq(t, i + 2, j - 1)), def |-> j < Len(t) /\ t[j + 1] = ":"]]

\* the ordinals of the footnote markers of a text, in order
MarkerOrdinals(t) ==
    LET ms == SelectSeq(ScanMarkers(t), LAMBDA m : ~m.def)
    IN  [i \in 1..Len(ms) |-> ms[i].n]

\* the ordinals of the footnote definitions of a text, in order
DefinitionOrdinals(t) ==
    LET ms == SelectSeq(ScanMarkers(t), LAMBDA m : m.def)
    IN  [i \in 1..Len(ms) |-> ms[i].n]

(***************************************************************************)
(* Properties.                                                             *)
(***************************************************************************)
\* C1: during a rendering pass the footnote ids receive the ordinals 1, 2, 3, ...
\* in the order in which the traversal first meets them: the i-th entry of
\* footnote_counters is the i-th distinct id met, with ordinal i, and the i-th
\* entry of used_footnotes carries ordinal i and that id.
C1_OrdinalsInOrderOfFirstMeeting ==
    Rendering =>
        LET met == FirstOccurrences(MetSoFar)
        IN  /\ Len(footnote_counters) = Len(met)
            /\ Len(used_footnotes) = Len(met)
            /\ \A i \in 1..Len(met) :
                 /\ footnote_counters[i] = <<met[i], i>>
                 /\ used_footnotes[i][1] = i
                 /\ used_footnotes[i][2] = met[i]

\* three ids have ordinals, and the first one met is not the first one declared
C1_Witness ==
    /\ pc = "body"
    /\ Len(footnote_counters) = 3
    /\ footnote_counters[1][1] # footnotes[1][1]
    /\ footnote_counters[3][1] = footnotes[1][1]

\* C2: a marker of an id that already has an ordinal is rendered as the same
\* [^n] as the first one and adds nothing to used_footnotes: the markers of the
\* body carry the ordinals of the ids met, and the log has one entry per id.
C2_RepeatedMarkerReusesOrdinal ==
    pc = "body" =>
        LET met   == MetSoFar
            first == FirstOccurrences(met)
            marks == MarkerOrdinals(md)
        IN  /\ Len(marks) = Len(met)
            /\ \A i \in 1..Len(met) : marks[i] = IndexIn(first, met[i])
            /\ Len(used_footnotes) = Len(first)
            /\ \A i, j \in 1..Len(used_footnotes) :
                 used_footnotes[i][2] = used_footnotes[j][2] => i = j

\* an id was met a second time after another id had taken the next ordinal
C2_Witness ==
    /\ pc = "body"
    /\ Len(MetSoFar) >= 3
    /\ MetSoFar[1] = MetSoFar[3]
    /\ MetSoFar[1] # MetSoFar[2]
    /\ MarkerOrdinals(md) = <<1, 2, 1>>

\* a node handled by the default branch
IsGeneric(el) ==
    /\ el.tag \notin (SKIP_TAGS \cup {"head", "div", "p"})
    /\ ~IsFootMarker(el)
    /\ ~IsCitationMarker(el)

\* each child's rendering followed by that child's tail, the state threaded
RECURSIVE KidsRendered(_, _, _)
KidsRendered(ks, fc, uf) ==
    IF ks = <<>> THEN <<>>
    ELSE LET r == _element_to_markdown(Head(ks), refs, footnotes, fc, uf, 0)
         IN  r.out \o replace_newlines(Head(ks).tail) \o KidsRendered(Tail(ks), r.fc, r.uf)

BodyElements == descendants_of_all(body_divs(doc))

\* C3: a generic container renders as its leading text (newlines as spaces)
\* followed by each child's rendering and tail, every fragment exactly once.
C3_GenericContainerOnce ==
    pc = "done" =>
        \A i \in 1..Len(BodyElements) :
            LET el == BodyElements[i]
            IN  IsGeneric(el) =>
                  _element_to_markdown(el, refs, footnotes, <<>>, <<>>, 0).out
                    = replace_newlines(el.text) \o KidsRendered(el.kids, <<>>, <<>>)

\* el with the content of every excluded section taken out
RECURSIVE WithoutExcluded(_)
WithoutExcluded(el) ==
    IF SectionExcluded(el) THEN [el EXCEPT !.text = <<>>, !.kids = <<>>]
    ELSE [el EXCEPT !.kids = [i \in 1..Len(el.kids) |-> WithoutExcluded(el.kids[i])]]

HeadingOf(el) == IF find_head(el) = <<>> THEN <<>> ELSE itertext(find_head(el)[1])

ExampleExcludedHeadings == {<<"C","o","n","c","l","u","s","i","o","n">>, <<"C","O","N","C","L","U","S","I","O","N">>, <<"c","o","n","c","l","u","s","i","o","n">>, <<"A","."," ","P","r","o","o","f"," ","o","f"," ","T","h","e","o","r","e","m"," ","1">>}

\* C4: a section whose heading satisfies the filter renders as the empty string
\* and is not entered: a div of the body renders, and leaves the render state,
\* as it would with the content of its excluded sections removed, and a div
\* headed "Conclusion" (any case) or "A. Proof of Theorem 1" adds nothing.
C4_ExcludedSectionSilent ==
    [][RenderDiv =>
         LET d == body_divs(doc)[div_i]
             r == _element_to_markdown(WithoutExcluded(d), refs, footnotes,
                                       footnote_counters, used_footnotes, 0)
         IN  /\ md' = md \o r.out
             /\ footnote_counters' = r.fc
             /\ used_footnotes' = r.uf
             /\ (SectionExcluded(d) \/ HeadingOf(d) \in ExampleExcludedHeadings)
                  => /\ md' = md
                     /\ UNCHANGED <<footnote_counters, used_footnotes>>]_vars

\* the section "A. Proof of Theorem 1", holding text and markers, was rendered
C4_Witness ==
    /\ pc = "body"
    /\ div_i = 2
    /\ HeadingOf(body_divs(doc)[1]) = <<"A","."," ","P","r","o","o","f"," ","o","f"," ","T","h","e","o","r","e","m"," ","1">>
    /\ FootnotesMet(WithoutExcluded(body_divs(doc)[1]), footnotes) = <<>>
    /\ Len(descendants(body_divs(doc)[1])) > 3
    /\ footnote_counters = <<>>
    /\ MarkerOrdinals(md) = <<>>

\* el with the content of every noise node taken out
RECURSIVE WithoutNoise(_)
WithoutNoise(el) ==
    IF el.tag \in SKIP_TAGS THEN [el EXCEPT !.text = <<>>, !.kids = <<>>]
    ELSE [el EXCEPT !.kids = [i \in 1..Len(el.kids) |-> WithoutNoise(el.kids[i])]]

\* C5: a noise node renders as the empty string and is not entered: a div of
\* the body renders, and leaves the render state, as it would with the content
\* of its noise nodes removed.
C5_NoiseSilent ==
    [][RenderDiv =>
         LET d  == body_divs(doc)[div_i]
             ds == descendants(d)
             r  == _element_to_markdown(WithoutNoise(d), refs, footnotes,
                                        footnote_counters, used_footnotes, 0)
         IN  /\ md' = md \o r.out
             /\ footnote_counters' = r.fc
             /\ used_footnotes' = r.uf
             /\ \A i \in 1..Len(ds) :
                  ds[i].tag \in SKIP_TAGS =>
                    _element_to_markdown(ds[i], refs, footnotes, footnote_counters,
                                         used_footnotes, 0)
                      = [out |-> <<>>, fc |-> footnote_counters, uf |-> used_footnotes]]_vars

\* a table holding a paragraph with a marker of footnote f2 was rendered
C5_Witness ==
    /\ pc = "body"
    /\ div_i = 2
    /\ \E i \in 1..Len(BodyElements) :
         /\ BodyElements[i].tag = "table"
         /\ \E j \in 1..Len(descendants(BodyElements[i])) :
              /\ IsFootMarker(descendants(BodyElements[i])[j])
              /\ dict_has(footnotes, TargetId(descendants(BodyElements[i])[j]))
         /\ \E j \in 1..Len(descendants(BodyElements[i])) :
              descendants(BodyElements[i])[j].tag = "p"
    /\ ~dict_has(footnote_counters, <<"f","2">>)
    /\ ~Contains(md, <<"N">>)

\* what the claim says a citation marker renders as
CitationExpected(el) ==
    IF TargetId(el) \in dict_keys(refs)
    THEN <<"[">> \o dict_get(refs, TargetId(el)).label \o <<"]">>
    ELSE <<"[">> \o strip(itertext(el)) \o <<"]">>

\* C6: a citation marker renders as [label] exactly when its target id is a key
\* of the Reference table, and as [raw text, trimmed] in every other case; the
\* paragraph "a<marker>y" of the body is rendered with it.
C6_CitationMarker ==
    pc = "done" =>
        \A i \in 1..Len(BodyElements) :
            LET el == BodyElements[i]
            IN  IsCitationMarker(el) =>
                  /\ _element_to_markdown(el, refs, footnotes, footnote_counters,
                                          used_footnotes, 0)
                       = [out |-> CitationExpected(el), fc |-> footnote_counters,
                          uf |-> used_footnotes]
                  /\ Contains(md, <<"\n", "\n", "a">> \o CitationExpected(el)
                                    \o <<"y", "\n", "\n">>)

\* a marker with target "#b59" was rendered with the label of entry b59
C6_Witness ==
    /\ pc = "done"
    /\ dict_has(refs, <<"b","5","9">>)
    /\ \E i \in 1..Len(BodyElements) :
         /\ IsCitationMarker(BodyElements[i])
         /\ attr_get(BodyElements[i], "target", <<>>) = <<"#","b","5","9">>
    /\ Contains(md, <<"a", "[">> \o dict_get(refs, <<"b","5","9">>).label \o <<"]", "y">>)

\* an id of the form b<digits>
IsBDigits(id) == Len(id) >= 2 /\ id[1] = "b" /\ \A i \in 2..Len(id) : IsDigit(id[i])

\* the validity gate as the claim states it
GateExcludes(bib) ==
    LET authors == bib_authors(bib.persNames)
        year    == bib_year(bib.dates)
    IN  /\ bib_title(bib) = <<>>
        /\ \/ year = <<>>
           \/ authors = <<>>
           \/ IsBDigits(bib.xml_id)
           \/ Len(authors) = 1 /\ year = <<>>

\* C7: an entry with an id is in the Reference table iff the gate does not
\* exclude it, and a citation marker that targets an excluded entry is rendered
\* with its raw text.
C7_ValidityGate ==
    pc \notin {"start", "error"} =>
        \A i \in 1..Len(doc.bibls) :
            LET bib == doc.bibls[i]
            IN  bib.xml_id # <<>> =>
                  /\ dict_has(refs, bib.xml_id) <=> ~GateExcludes(bib)
                  /\ (pc = "done" /\ GateExcludes(bib)) =>
                       \A j \in 1..Len(BodyElements) :
                           LET el == BodyElements[j]
                           IN  (IsCitationMarker(el) /\ TargetId(el) = bib.xml_id) =>
                                 Contains(md, <<"\n", "\n", "a", "[">> \o strip(itertext(el))
                                                \o <<"]", "y", "\n", "\n">>)

\* the bare entry b59 is not in the table and its marker shows the raw text
C7_Witness ==
    /\ pc = "done"
    /\ \E i \in 1..Len(doc.bibls) :
         /\ doc.bibls[i].xml_id = <<"b","5","9">>
         /\ doc.bibls[i].persNames = <<>>
         /\ doc.bibls[i].dates = <<>>
         /\ bib_title(doc.bibls[i]) = <<>>
    /\ \E j \in 1..Len(BodyElements) :
         IsCitationMarker(BodyElements[j]) /\ TargetId(BodyElements[j]) = <<"b","5","9">>
    /\ ~dict_has(refs, <<"b","5","9">>)
    /\ Contains(md, <<"a", "[", "5", "9", "]", "y">>)

\* the id that received ordinal n
IdOfOrdinal(n) ==
    CHOOSE id \in dict_keys(footnote_counters) : dict_get(footnote_counters, id) = n

\* C8: the Footnotes section is written iff the body holds a footnote marker;
\* it then holds one line "[^n]: text" for each ordinal n = 1..k in ascending
\* order, the text being that of the footnote with ordinal n, and the ordinals
\* of the markers of the body are exactly 1..k.
C8_FootnotesSection ==
    pc = "references" =>
        LET marks == MarkerOrdinals(md)
            defs  == DefinitionOrdinals(md)
            k     == Cardinality({marks[i] : i \in 1..Len(marks)})
        IN  /\ Contains(md, <<"#","#"," ","F","o","o","t","n","o","t","e","s">>) <=> marks # <<>>
            /\ defs = [n \in 1..k |-> n]
            /\ {marks[i] : i \in 1..Len(marks)} = 1..k
            /\ \A n \in 1..k :
                 Contains(md, <<"\n", "[", "^">> \o str_int(n) \o <<"]", ":", " ">>
                                \o dict_get(footnotes, IdOfOrdinal(n)) \o <<"\n", "\n">>)

\* three footnotes were referenced, the one declared first being met last
C8_Witness ==
    /\ pc = "references"
    /\ Len(footnote_counters) = 3
    /\ DefinitionOrdinals(md) = <<1, 2, 3>>
    /\ IdOfOrdinal(3) = footnotes[1][1]
    /\ Len(MarkerOrdinals(md)) > 3

\* a heading that starts with a lettered-appendix number: a letter a-f in
\* either case and a dot, followed by white space ("A. ...") or by digits and
\* white space ("B.1 ...")
LetteredNumbering(heading) ==
    LET h == strip(heading)
    IN  /\ Len(h) >= 3
        /\ lower_char(h[1]) \in {"a", "b", "c", "d", "e", "f"}
        /\ h[2] = "."
        /\ \/ h[3] \in Whitespace
           \/ \E j \in 4..Len(h) :
                h[j] \in Whitespace /\ \A m \in 3..(j - 1) : IsDigit(h[m])

\* C10: the filter excludes every heading that starts with a lettered-appendix
\* number a-f in either case, in the form "A. ..." and in the form "B.1 ...".
C10_LetteredAppendixExcluded ==
    pc = "done" =>
        \A i \in 1..Len(BodyElements) :
            (BodyElements[i].tag = "head" /\ LetteredNumbering(itertext(BodyElements[i])))
                => _is_excluded_section(itertext(BodyElements[i]))

(***************************************************************************)
(* C11, C12: the label of a Reference.                                     *)
(***************************************************************************)
\* the entry of the bibliography a Reference of the table was built from:
\* the last one with its id
EntryOf(id) ==
    LET at == {i \in 1..Len(doc.bibls) : doc.bibls[i].xml_id = id}
    IN  doc.bibls[CHOOSE i \in at : \A j \in at : j <= i]

\* the non-empty trimmed surnames of an entry, in document order
SurnamesOf(bib) ==
    LET named == {i \in 1..Len(bib.persNames) :
                    bib.persNames[i] # <<>> /\ strip(bib.persNames[i][1]) # <<>>}
    IN  [k \in 1..Cardinality(named) |->
            strip(bib.persNames[CHOOSE i \in named :
                                  Cardinality({j \in named : j <= i}) = k][1])]

\* the label as the claim words it
LabelExpected(id, surnames, year) ==
    CASE Len(surnames) = 1 -> surnames[1] \o <<",", " ">> \o year
      [] Len(surnames) = 2 -> surnames[1] \o <<" ", "a", "n", "d", " ">> \o surnames[2] \o <<",", " ">> \o year
      [] Len(surnames) >= 3 -> surnames[1] \o <<" ", "e", "t", " ", "a", "l", ".", ",", " ">> \o year
      [] OTHER -> IF year # <<>> THEN year ELSE id

\* C11: the label of every Reference of the table is "Surname, Year" for one
\* author, "A and B, Year" for two, "FirstAuthor et al., Year" for three or
\* more, and without authors the year or, when the year is empty, the raw id.
C11_LabelFormation ==
    pc # "start" =>
        \A i \in 1..Len(refs) :
            LET id  == refs[i][1]
                ref == refs[i][2]
            IN  /\ ref.authors = SurnamesOf(EntryOf(id))
                /\ ref.label = LabelExpected(id, ref.authors, ref.year)

\* three authors and the year of a "when" attribute, next to one author and no year
C11_Witness ==
    /\ pc = "done"
    /\ \E i \in 1..Len(refs) :
         Len(refs[i][2].authors) = 3 /\ refs[i][2].label = <<"D","o","e"," ","e","t"," ","a","l",".",","," ","2","0","2","1">>
    /\ \E i \in 1..Len(refs) :
         Len(refs[i][2].authors) = 1 /\ refs[i][2].label = <<"R","o","e",","," ">>

\* two authors and the year found in the text of a date
C11_WitnessTwoAuthors ==
    /\ pc = "done"
    /\ \E i \in 1..Len(refs) :
         Len(refs[i][2].authors) = 2 /\ refs[i][2].label = <<"D","o","e"," ","a","n","d"," ","R","o","e",","," ","1","9","9","9">>

\* no authors: the year, and without a year the id
C11_WitnessNoAuthors ==
    /\ pc = "done"
    /\ \E i \in 1..Len(refs) :
         refs[i][2].authors = <<>> /\ refs[i][2].label \in {<<"2","0","2","0">>, <<"r","e","f","1">>}

\* C12: every Reference stored in the table has a non-empty label.
C12_LabelNonEmpty ==
    \A i \in 1..Len(refs) : refs[i][2].label # <<>>

\* an entry with a title but neither authors nor a year is stored, labelled
\* with its id
C12_Witness ==
    /\ pc = "done"
    /\ \E i \in 1..Len(doc.bibls) :
         LET bib == doc.bibls[i]
         IN  /\ bib.xml_id = <<"b", "5", "x">>
             /\ bib_authors(bib.persNames) = <<>>
             /\ bib_year(bib.dates) = <<>>
             /\ bib_title(bib) # <<>>
             /\ dict_has(refs, bib.xml_id)
             /\ dict_get(refs, bib.xml_id).label = bib.xml_id

(***************************************************************************)
(* C13: the order of the parts of the output.                              *)
(***************************************************************************)
\* where s first occurs in t at or after position from, 0 when it does not
IndexFrom(t, s, from) ==
    LET hits == {i \in from..(Len(t) - Len(s) + 1) : SubSeq(t, i, i + Len(s) - 1) = s}
    IN  IF hits = {} THEN 0 ELSE CHOOSE i \in hits : \A j \in hits : i <= j

\* where each part of the output starts in t, in the order the claim lists
\* them, 0 for a part that t does not hold
PartPositions(t) ==
    LET abstract == IndexFrom(t, <<"#", "#", " ", "A", "b", "s", "t", "r", "a", "c", "t", "\n", "\n">>, 1)
    IN  << IndexFrom(t, <<"#", " ", "E", "x", "a", "m", "p", "l", "e", " ", "P", "a", "p", "e", "r", "\n", "\n">>, 1),
           IndexFrom(t, <<"*", "*", "A", "u", "t", "h", "o", "r", "s", ":", "*", "*", " ">>, 1),
           IndexFrom(t, <<"-", "-", "-", "\n", "\n">>, 1),
           abstract,
           IF abstract = 0 THEN 0 ELSE IndexFrom(t, <<"-", "-", "-", "\n", "\n">>, abstract),
           IndexFrom(t, <<"#", "#", "#", " ", "M", "e", "t", "h", "o", "d", "s", "\n", "\n">>, 1),
           IndexFrom(t, <<"#", "#", "#", " ", "R", "e", "s", "u", "l", "t", "s", "\n", "\n">>, 1),
           IndexFrom(t, <<"#", "#", " ", "F", "o", "o", "t", "n", "o", "t", "e", "s", "\n", "\n">>, 1),
           IndexFrom(t, <<"#", "#", " ", "R", "e", "f", "e", "r", "e", "n", "c", "e", "s", "\n", "\n">>, 1) >>

\* the parts that occur, occur in the order of the list
InListedOrder(ps) ==
    \A i, j \in 1..Len(ps) : (i < j /\ ps[i] # 0 /\ ps[j] # 0) => ps[i] < ps[j]

\* C13: at every moment the parts written so far stand in the order title
\* heading, authors line, rule, Abstract section, rule, body sections in
\* document order, Footnotes section, References section; what is written is
\* never changed, only extended.
C13_FixedOrderOfParts ==
    /\ [](/\ InListedOrder(PartPositions(md))
          /\ md # <<>> => IndexFrom(md, <<"#", " ", "E", "x", "a", "m", "p", "l", "e", " ", "P", "a", "p", "e", "r", "\n", "\n">>, 1) \in {0, 1}
          /\ pc = "done" => PartPositions(md)[3] # 0)
    /\ [][Len(md) <= Len(md') /\ SubSeq(md', 1, Len(md)) = md]_vars

\* a document with every part: all nine positions are found
C13_Witness ==
    /\ pc = "done"
    /\ \A i \in 1..9 : PartPositions(md)[i] # 0

(***************************************************************************)
(* C14: input that is not well-formed XML.                                 *)
(***************************************************************************)
\* C14: on a document that is not well-formed the call ends in the error
\* before anything is rendered: the tables are not built, md stays empty,
\* the render state is never set up and no output file is written.
C14_MalformedInputFails ==
    ~doc.well_formed =>
        /\ pc \in {"start", "error"}
        /\ refs = <<>> /\ footnotes = <<>>
        /\ md = <<>>
        /\ footnote_counters = <<>> /\ used_footnotes = <<>> /\ div_i = 0
        /\ ~output_file.exists

\* the call on a malformed document with sections, notes and a bibliography
\* has failed; only the output directory was made
C14_Witness ==
    /\ ~doc.well_formed
    /\ pc = "error"
    /\ body_divs(doc) # <<>> /\ doc.bibls # <<>> /\ doc.title_main # <<>>
    /\ md = <<>>
    /\ output_dir /\ ~output_file.exists

(***************************************************************************)
(* C15: footnote markers without a footnote.                               *)
(***************************************************************************)
\* a footnote marker whose target is not a key of the Footnote table
IsUnresolvedMarker(el) == IsFootMarker(el) /\ ~dict_has(footnotes, TargetId(el))

\* el with every unresolved footnote marker replaced by an empty inline
\* element that keeps the marker's tail
RECURSIVE WithoutUnresolved(_)
WithoutUnresolved(el) ==
    IF IsUnresolvedMarker(el) THEN El("hi", NoAttrs, <<>>, <<>>, el.tail)
    ELSE [el EXCEPT !.kids = [i \in 1..Len(el.kids) |-> WithoutUnresolved(el.kids[i])]]

\* C15: a footnote marker whose target is not in the Footnote table renders as
\* the empty string and leaves the counter map and the log as they are; a div
\* renders, and numbers its resolvable footnotes, as it would without its
\* unresolved markers.
C15_UnresolvedMarkerSilent ==
    [][RenderDiv =>
         LET d  == body_divs(doc)[div_i]
             ds == descendants(d)
             r  == _element_to_markdown(WithoutUnresolved(d), refs, footnotes,
                                        footnote_counters, used_footnotes, 0)
         IN  /\ md' = md \o r.out
             /\ footnote_counters' = r.fc
             /\ used_footnotes' = r.uf
             /\ \A i \in 1..Len(ds) :
                  IsUnresolvedMarker(ds[i]) =>
                    /\ ~dict_has(footnote_counters', TargetId(ds[i]))
                    /\ \A k \in 1..Len(used_footnotes') : used_footnotes'[k][2] # TargetId(ds[i])
                    /\ _element_to_markdown(ds[i], refs, footnotes, footnote_counters',
                                            used_footnotes', 0)
                         = [out |-> <<>>, fc |-> footnote_counters', uf |-> used_footnotes']]_vars

\* the first div "<p>[fz][f2]</p>" was rendered: f2, met after the unresolved
\* marker, has ordinal 1
C15_Witness ==
    /\ pc = "body"
    /\ div_i = 2
    /\ \E i \in 1..Len(descendants(body_divs(doc)[1])) : \E j \in 1..Len(descendants(body_divs(doc)[1])) :
         /\ i < j
         /\ IsUnresolvedMarker(descendants(body_divs(doc)[1])[i])
         /\ IsFootMarker(descendants(body_divs(doc)[1])[j])
         /\ TargetId(descendants(body_divs(doc)[1])[j]) = <<"f", "2">>
    /\ footnote_counters = << <<<<"f", "2">>, 1>> >>
    /\ Len(used_footnotes) = 1
    /\ Contains(md, <<"[", "^", "1", "]">>)

(***************************************************************************)
(* C16, C17: calls that follow or interleave with one another.             *)
(***************************************************************************)
\* the divs of a body rendered one after the other from an empty render state
RECURSIVE DivsAlone(_, _, _, _)
DivsAlone(divs, rs, fs, acc) ==
    IF divs = <<>> THEN acc
    ELSE LET r == _element_to_markdown(Head(divs), rs, fs, acc.fc, acc.uf, 0)
         IN  DivsAlone(Tail(divs), rs, fs, [out |-> acc.out \o r.out, fc |-> r.fc, uf |-> r.uf])

\* what processing the document d alone returns
ExtractAlone(d) ==
    LET rs   == _parse_references(d)
        body == DivsAlone(body_divs(d), rs, _parse_footnotes(d),
                          [out |-> <<>>, fc |-> <<>>, uf |-> <<>>])
    IN  front_matter(d) \o body.out \o footnotes_section(body.uf) \o references_section(rs)

\* the markers of a text are numbered from 1 in the order they first occur
NumberedFromOne(t) ==
    LET ns == MarkerOrdinals(t)
    IN  \A i \in 1..Len(ns) :
          ns[i] <= 1 + Cardinality({ns[j] : j \in 1..(i - 1)})

\* C16: whatever calls came before and whatever call is suspended, the call
\* that returns has the output of processing its document alone, with the
\* footnotes numbered from 1; the same holds of the suspended call.
C16_RenderStateLocal ==
    /\ pc \in {"done", "written"} =>
         /\ md = ExtractAlone(doc)
         /\ NumberedFromOne(md)
    /\ other.pc \in {"done", "written"} =>
         /\ other.md = ExtractAlone(other.doc)
         /\ NumberedFromOne(other.md)

\* a later call returns on a document with footnotes while the suspended call,
\* on another document, is in the middle of its body and has numbered a footnote
C16_Witness ==
    /\ calls >= 1
    /\ pc = "done"
    /\ MarkerOrdinals(md) # <<>> /\ MarkerOrdinals(md)[1] = 1
    /\ other.pc = "body"
    /\ other.doc # doc
    /\ other.footnote_counters # <<>>
    /\ other.div_i <= Len(body_divs(other.doc))

\* C17: two calls on the same document return the same Markdown, with the
\* same footnote ordinals and the same order of bibliography entries.
C17_Deterministic ==
    (/\ pc \in {"done", "written"}
     /\ other.pc \in {"done", "written"}
     /\ other.doc = doc) =>
        /\ md = other.md
        /\ footnote_counters = other.footnote_counters
        /\ used_footnotes = other.used_footnotes
        /\ refs = other.refs

\* a call that followed another one has returned on the document of the
\* suspended call, which has three footnotes
C17_Witness ==
    /\ calls >= 1
    /\ pc = "done"
    /\ other.pc = "written"
    /\ other.doc = doc
    /\ Len(footnote_counters) = 3
    /\ md = other.md

(***************************************************************************)
(* C18: the tables are read-only once built.                               *)
(***************************************************************************)
\* C18: from the moment the Reference table and the Footnote table are built,
\* no step changes either of them, through the body, the Footnotes section
\* and the References section; a turn of the body loop writes the counter map
\* and the log (and extends md), and nothing else.
C18_TablesReadOnly ==
    [][/\ pc \in {"front", "body", "references", "done"} =>
            /\ refs' = refs
            /\ footnotes' = footnotes
            /\ refs = _parse_references(doc)
            /\ footnotes = _parse_footnotes(doc)
       /\ RenderDiv =>
            UNCHANGED <<pc, doc, refs, footnotes, output_dir, output_file, calls, other>>]_vars

\* a document whose body used both tables has been rendered to the end
C18_Witness ==
    /\ pc = "done"
    /\ Len(used_footnotes) >= 2
    /\ \E i \in 1..Len(BodyElements) :
         IsCitationMarker(BodyElements[i]) /\ dict_has(refs, TargetId(BodyElements[i]))
    /\ refs = _parse_references(doc) /\ refs # <<>>
    /\ footnotes = _parse_footnotes(doc) /\ Len(footnotes) = 3
    /\ Contains(md, <<"#", "#", " ", "F", "o", "o", "t", "n", "o", "t", "e", "s">>) /\ Contains(md, <<"#", "#", " ", "R", "e", "f", "e", "r", "e", "n", "c", "e", "s">>)

(***************************************************************************)
(* C19, C20: the counters and the attempts of download_paper.              *)
(***************************************************************************)
Counters == {"successful", "failed", "skipped"}

\* C19: a call of download_paper changes no counter before it returns, and
\* when it has returned exactly one of successful, failed and skipped is one
\* more than the call found it, the other two are as it found them, however
\* many attempts the call made.
C19_OneCounterPerCall ==
    /\ dl_pc \in {"entry", "loop"} =>
         \A k \in Counters : stats[k] = stats_before[k]
    /\ dl_pc = "returned" =>
         \E k \in Counters :
            /\ stats[k] = stats_before[k] + 1
            /\ \A j \in Counters \ {k} : stats[j] = stats_before[j]

\* the second call of a downloader returns after three timeouts: one failure
\* more, next to the success of the first call
C19_Witness ==
    /\ dl_pc = "returned"
    /\ downloads = 2
    /\ requests_sent = 3
    /\ returned = [success |-> FALSE, message |-> "Timeout"]
    /\ stats_before.successful = 1 /\ stats_before.failed = 0
    /\ stats.successful = 1 /\ stats.failed = 1 /\ stats.skipped = 0

\* the failures that follow repeated attempts
RetriedFailures ==
    {"Timeout", "Request error", "Unexpected error", "Downloaded file is not a valid PDF"}

\* C20: a call sends at most max_retries requests and always returns; a 404
\* or 403 answer ends it at once as a failure; a timeout, another request
\* error or a download that is no PDF is followed by a further attempt until
\* max_retries attempts are made, and then the call returns a failure.
C20_BoundedRetriesAlwaysReturns ==
    /\ [](requests_sent <= max_retries)
    /\ [](dl_pc # "raised")
    /\ [][RespondNotFoundOrForbidden =>
            /\ dl_pc' = "returned"
            /\ ~returned'.success
            /\ stats'.failed = stats.failed + 1]_vars
    /\ [][(RequestFails \/ StreamFails \/ DownloadInvalid) =>
            IF attempt < max_retries - 1
            THEN dl_pc' = "loop" /\ attempt' = attempt + 1 /\ stats' = stats
            ELSE /\ dl_pc' = "returned"
                 /\ ~returned'.success
                 /\ stats'.failed = stats.failed + 1]_vars
    /\ [](dl_pc = "returned" /\ returned.message \in RetriedFailures =>
            requests_sent = max_retries)
    /\ (dl_pc \in {"entry", "loop"}) ~> (dl_pc = "returned")

(***************************************************************************)
(* C22, C29: the level of a heading.                                       *)
(***************************************************************************)
\* how many characters c stand at the start of t from position i on
RunLength(t, i, c) ==
    LET ends == {j \in i..(Len(t) + 1) : j > Len(t) \/ t[j] # c}
    IN  (CHOOSE j \in ends : \A m \in ends : j <= m) - i

\* the heading line the claim gives for a head at a level of h hashes
HeadingLine(el, h) ==
    <<"\n", "\n">> \o [i \in 1..h |-> "#"] \o <<" ">>
      \o (IF "n" \in DOMAIN el.attrs /\ el.attrs["n"] # <<>> THEN el.attrs["n"] \o <<" ">> ELSE <<>>)
      \o strip(itertext(el)) \o <<"\n", "\n">>

\* the depths a head is rendered with in the deepest documents, and beyond
HeadDepths == 0..(MaxDepth + 3)

\* C22: a head rendered with depth d gives a blank line, min(d + 2, 6) hashes,
\* a space, the number attribute and a space when it is present, the trimmed
\* heading text and a blank line; there are never more than 6 hashes.
C22_HeadingLevel ==
    pc = "done" =>
        \A i \in 1..Len(BodyElements) : \A d \in HeadDepths :
            LET el == BodyElements[i]
                r  == _element_to_markdown(el, refs, footnotes, footnote_counters,
                                           used_footnotes, d)
                h  == RunLength(r.out, 3, "#")
            IN  el.tag = "head" =>
                  /\ h = (IF d + 2 <= 6 THEN d + 2 ELSE 6)
                  /\ h <= 6
                  /\ r.out = HeadingLine(el, h)
                  /\ r.fc = footnote_counters /\ r.uf = used_footnotes

\* a numbered head six sections deep is in the output with six hashes
C22_Witness ==
    /\ pc = "done"
    /\ \E i \in 1..Len(BodyElements) :
         /\ BodyElements[i].tag = "head"
         /\ attr_get(BodyElements[i], "n", <<>>) = <<"2", ".", "1">>
         /\ BodyElements[i].text = <<"L", "5">>
    /\ Contains(md, <<"\n", "\n", "#", "#", "#", "#", "#", "#", " ", "2", ".", "1", " ", "L", "5", "\n", "\n">>)
    /\ Contains(md, <<"\n", "\n", "#", "#", "#", "#", "#", "#", " ", "7", " ", "I", "t", "e", "m", "s", "\n", "\n">>)
    /\ ~Contains(md, <<"#", "#", "#", "#", "#", "#", "#">>)

\* the heads of el that are rendered, each with the number of sections that
\* enclose it, given that k sections enclose el
RECURSIVE HeadsBelow(_, _)
HeadsBelow(el, k) ==
    LET RECURSIVE over(_, _)
        over(ks, n) == IF ks = <<>> THEN <<>> ELSE HeadsBelow(Head(ks), n) \o over(Tail(ks), n)
    IN  IF el.tag \in SKIP_TAGS \/ SectionExcluded(el) \/ el.tag = "ref" THEN <<>>
        ELSE IF el.tag = "head" THEN << <<el, k>> >>
        ELSE IF el.tag = "div" THEN over(el.kids, k + 1)
        ELSE over(el.kids, k)

RECURSIVE HeadsOfDivs(_)
HeadsOfDivs(divs) ==
    IF divs = <<>> THEN <<>> ELSE HeadsBelow(Head(divs), 0) \o HeadsOfDivs(Tail(divs))

\* the body part of md: what follows the front matter
BodyText == SubSeq(md, Len(front_matter(doc)) + 1, Len(md))

\* the lengths of the runs of hashes that start a line of t
HeadingLevels(t) ==
    { RunLength(t, i, "#") : i \in {j \in 2..Len(t) : t[j] = "#" /\ t[j - 1] = "\n"} }

\* C29: a heading enclosed by k sections is rendered with min(k + 2, 6)
\* hashes, whatever paragraphs or generic containers stand between: three for
\* the heading of a top-level section, one more for each section below it up
\* to six, and no heading of the body has fewer than three.
C29_DepthCountsSections ==
    (pc = "body" /\ div_i > Len(body_divs(doc))) =>
        /\ \A i \in 1..Len(HeadsOfDivs(body_divs(doc))) :
              LET el == HeadsOfDivs(body_divs(doc))[i][1]
                  k  == HeadsOfDivs(body_divs(doc))[i][2]
              IN  /\ k >= 1
                  /\ Contains(BodyText, HeadingLine(el, IF k + 2 <= 6 THEN k + 2 ELSE 6))
        /\ \A h \in HeadingLevels(BodyText) : h >= 3 /\ h <= 6
        /\ Cardinality(HeadingLevels(BodyText))
             = Cardinality({(IF HeadsOfDivs(body_divs(doc))[i][2] + 2 <= 6
                             THEN HeadsOfDivs(body_divs(doc))[i][2] + 2 ELSE 6) :
                               i \in 1..Len(HeadsOfDivs(body_divs(doc)))})

\* a list heading below four nested sections has been rendered with six
\* hashes, the top-level heading with three
C29_Witness ==
    /\ pc = "body" /\ div_i > Len(body_divs(doc))
    /\ \E i \in 1..Len(HeadsOfDivs(body_divs(doc))) :
         /\ HeadsOfDivs(body_divs(doc))[i][1].text = <<" ", "I", "t", "e", "m", "s", "\n">>
         /\ HeadsOfDivs(body_divs(doc))[i][2] = 4
    /\ Contains(md, <<"\n", "\n", "#", "#", "#", " ", "L", "0", "\n", "\n">>)
    /\ Contains(md, <<"\n", "\n", "#", "#", "#", "#", " ", "L", "1", "\n", "\n">>)
    /\ Contains(md, <<"\n", "\n", "#", "#", "#", "#", "#", "#", " ", "L", "3", "\n", "\n">>)
    /\ Contains(md, <<"\n", "\n", "#", "#", "#", "#", "#", "#", " ", "I", "t", "e", "m", "s", "\n", "\n">>)
    /\ HeadingLevels(BodyText) = {3, 4, 5, 6}

(***************************************************************************)
(* C23: the year of a bibliography entry.                                  *)
(***************************************************************************)
AllDigits(s) == \A i \in 1..Len(s) : IsDigit(s[i])

\* the "when" attribute starts with four digits
WhenYields(date) == Len(date.when) >= 4 /\ AllDigits(SubSeq(date.when, 1, 4))

\* where runs of four digits start in the text of a date node
FourDigitStarts(date) ==
    {i \in 1..(Len(date.text) - 3) : AllDigits(SubSeq(date.text, i, i + 3))}

\* the year as the claim derives it
YearExpected(dates) ==
    LET yielding == {i \in 1..Len(dates) : WhenYields(dates[i]) \/ FourDigitStarts(dates[i]) # {}}
        first    == CHOOSE i \in yielding : \A j \in yielding : i <= j
        at       == CHOOSE i \in FourDigitStarts(dates[first]) :
                        \A j \in FourDigitStarts(dates[first]) : i <= j
    IN  IF yielding = {} THEN <<>>
        ELSE IF WhenYields(dates[first]) THEN SubSeq(dates[first].when, 1, 4)
        ELSE SubSeq(dates[first].text, at, at + 3)

\* C23: the year stored for an entry is the one its first yielding date node
\* gives, from the first four characters of a "when" that starts with four
\* digits or else from the first four digits in a row of the node's text;
\* it is empty when no node yields one, and otherwise exactly four digits.
C23_YearFromFirstDate ==
    pc \notin {"start", "error"} =>
        /\ \A i \in 1..Len(refs) :
              LET year == refs[i][2].year
              IN  /\ year = YearExpected(EntryOf(refs[i][1]).dates)
                  /\ year = <<>> \/ (Len(year) = 4 /\ AllDigits(year))
        /\ \A i \in 1..Len(doc.bibls) :
              bib_year(doc.bibls[i].dates) = YearExpected(doc.bibls[i].dates)

\* the first date node gives 1987 from its text and the second, with a
\* "when" of 2001, is not consulted
C23_Witness ==
    /\ pc = "done"
    /\ \E i \in 1..Len(refs) :
         /\ Len(EntryOf(refs[i][1]).dates) = 2
         /\ EntryOf(refs[i][1]).dates[2].when = <<"2", "0", "0", "1">>
         /\ refs[i][2].year = <<"1", "9", "8", "7">>

(***************************************************************************)
(* C24: the Footnote table.                                                *)
(***************************************************************************)
\* the note elements of the document, in document order
NotesOfDoc ==
    SelectSeq(descendants_of_all(doc.body.kids), LAMBDA el : el.tag = "note")

\* the text of an element and of everything below it, in document order
RECURSIVE TextBelow(_)
TextBelow(el) ==
    LET RECURSIVE over(_)
        over(ks) == IF ks = <<>> THEN <<>>
                    ELSE TextBelow(Head(ks)) \o Head(ks).tail \o over(Tail(ks))
    IN  el.text \o over(el.kids)

\* the text without the white space at its two ends
Trimmed(t) ==
    LET inked == {i \in 1..Len(t) : t[i] \notin Whitespace}
    IN  IF inked = {} THEN <<>>
        ELSE SubSeq(t, CHOOSE i \in inked : \A j \in inked : i <= j,
                       CHOOSE i \in inked : \A j \in inked : j <= i)

\* a note the claim says the table holds
IsStoredNote(el) ==
    /\ "place" \in DOMAIN el.attrs /\ el.attrs["place"] = <<"f", "o", "o", "t">>
    /\ "xml:id" \in DOMAIN el.attrs /\ el.attrs["xml:id"] # <<>>
    /\ Trimmed(TextBelow(el)) # <<>>

\* C24: the keys of the Footnote table are exactly the ids of the
\* footnote-placement notes with a non-empty id and a non-empty trimmed
\* text, each key maps to the trimmed text of such a note (the last one with
\* that id), no key is empty and no text is empty.
C24_FootnoteTable ==
    pc \notin {"start", "error"} =>
        LET stored == {i \in 1..Len(NotesOfDoc) : IsStoredNote(NotesOfDoc[i])}
        IN  /\ dict_keys(footnotes) = {NotesOfDoc[i].attrs["xml:id"] : i \in stored}
            /\ \A k \in 1..Len(footnotes) :
                  LET same == {i \in stored : NotesOfDoc[i].attrs["xml:id"] = footnotes[k][1]}
                      last == CHOOSE i \in same : \A j \in same : j <= i
                  IN  /\ footnotes[k][1] # <<>>
                      /\ footnotes[k][2] # <<>>
                      /\ footnotes[k][2] = Trimmed(TextBelow(NotesOfDoc[last]))
                      /\ \A j \in 1..Len(footnotes) : footnotes[j][1] = footnotes[k][1] => j = k

\* of a note with text in a child element and a note of white space only, the
\* first is in the table and the second is not; its marker is not rendered
C24_Witness ==
    /\ pc = "done"
    /\ \E i, j \in 1..Len(NotesOfDoc) :
         /\ attr_get(NotesOfDoc[i], "xml:id", <<>>) = <<"f", "4">>
         /\ attr_get(NotesOfDoc[j], "xml:id", <<>>) = <<"f", "2">>
    /\ footnotes = << <<<<"f", "4">>, <<"i", "n", " ", "s", "i", "d", "e">>>> >>
    /\ Contains(md, <<"[", "^", "1", "]", ":", " ", "i", "n", " ", "s", "i", "d", "e">>)
    /\ ~Contains(md, <<"[", "^", "2", "]">>)

(***************************************************************************)
(* C26: the headings of the body.                                          *)
(***************************************************************************)
\* the texts of the heading lines of t: what stands between the hashes and
\* the space at the start of a line, and the end of that line
HeadingTexts(t) ==
    { LET from == i + RunLength(t, i, "#") + 1
          ends == {j \in from..(Len(t) + 1) : j > Len(t) \/ t[j] = "\n"}
      IN  SubSeq(t, from, (CHOOSE j \in ends : \A m \in ends : j <= m) - 1) :
        i \in {j \in 2..Len(t) : t[j] = "#" /\ t[j - 1] = "\n"} }

\* C26: every heading line of the rendered body has a heading text for which
\* the Section Relevance Filter returns false, also when a section carries
\* more than one heading child.
C26_NoExcludedHeadingRendered ==
    (pc = "body" /\ div_i > Len(body_divs(doc))) =>
        \A h \in HeadingTexts(BodyText) : ~_is_excluded_section(h)

\* of the two headings of a section the second, an excluded one, is a heading
\* line of the body
C26_SecondHeadingRendered ==
    /\ pc = "body" /\ div_i > Len(body_divs(doc))
    /\ Len(body_divs(doc)[1].kids) = 4
    /\ body_divs(doc)[1].kids[1].text = <<"M", "e", "t", "h", "o", "d", "s">>
    /\ body_divs(doc)[1].kids[3].text = <<"C", "o", "n", "c", "l", "u", "s", "i", "o", "n">>
    /\ Contains(BodyText, <<"\n", "\n", "#", "#", "#", " ", "C", "o", "n", "c", "l", "u", "s", "i", "o", "n", "\n", "\n">>)
    /\ Contains(BodyText, <<"b", "\n", "\n">>)

(***************************************************************************)
(* C27: the output is never empty.                                         *)
(***************************************************************************)
\* the callers' check of the returned text: "if not md.strip()"
empty_markdown_output(text) == strip(text) = <<>>

\* C27: for every well-formed document, also one with no title, authors,
\* abstract, body, footnotes or bibliography, the text returned contains the
\* rule "---" and is neither empty nor white space only: the callers' check
\* for an empty output does not trigger.
C27_OutputNeverEmpty ==
    (doc.well_formed /\ pc \in {"done", "written"}) =>
        /\ Contains(md, <<"-", "-", "-">>)
        /\ md # <<>>
        /\ ~empty_markdown_output(md)

\* the document with no part at all returns the rule alone
C27_Witness ==
    /\ pc = "done"
    /\ doc.title_main = <<>> /\ doc.persNames = <<>> /\ doc.abstract_ps = <<>>
    /\ ~doc.body.present /\ doc.bibls = <<>>
    /\ md = <<"-", "-", "-", "\n", "\n">>

(***************************************************************************)
(* C28: footnote markers in skipped subtrees.                              *)
(***************************************************************************)
\* el with the noise nodes and the excluded sections below it taken away
RECURSIVE Pruned(_)
Pruned(el) ==
    LET kept == SelectSeq(el.kids, LAMBDA k : k.tag \notin SKIP_TAGS /\ ~SectionExcluded(k))
    IN  [el EXCEPT !.kids = [i \in 1..Len(kept) |-> Pruned(kept[i])]]

\* the sections of the body without the skipped subtrees
PrunedDivs ==
    LET kept == SelectSeq(body_divs(doc), LAMBDA d : ~SectionExcluded(d))
    IN  [i \in 1..Len(kept) |-> Pruned(kept[i])]

\* the targets of the footnote markers below el, in document order; headings
\* and markers are read as text
RECURSIVE FootTargets(_)
FootTargets(el) ==
    LET RECURSIVE over(_)
        over(ks) == IF ks = <<>> THEN <<>> ELSE FootTargets(Head(ks)) \o over(Tail(ks))
    IN  IF IsFootMarker(el) THEN <<TargetId(el)>>
        ELSE IF el.tag \in {"head", "ref"} THEN <<>>
        ELSE over(el.kids)

RECURSIVE FootTargetsOfAll(_)
FootTargetsOfAll(els) ==
    IF els = <<>> THEN <<>> ELSE FootTargets(Head(els)) \o FootTargetsOfAll(Tail(els))

\* C28: a footnote marker inside an excluded section or a noise node assigns
\* no ordinal and adds nothing to the log of used footnotes: when the body
\* has been rendered the ordinals and the log are those of the document
\* without the skipped subtrees, numbered 1, 2, ... in the order in which the
\* markers outside the skipped subtrees first name each footnote.
C28_SkippedMarkersAssignNothing ==
    (pc \in {"references", "done"}) =>
        LET alone == DivsAlone(PrunedDivs, refs, footnotes, [out |-> <<>>, fc |-> <<>>, uf |-> <<>>])
            named == FirstOccurrences(SelectSeq(FootTargetsOfAll(PrunedDivs),
                                                LAMBDA id : dict_has(footnotes, id)))
        IN  /\ footnote_counters = alone.fc
            /\ used_footnotes = alone.uf
            /\ MarkerOrdinals(BodyText) = MarkerOrdinals(alone.out)
            /\ footnote_counters = [i \in 1..Len(named) |-> <<named[i], i>>]
            /\ [i \in 1..Len(used_footnotes) |-> used_footnotes[i][2]] = named

\* a marker of f1 in a section headed "A. Proof of Theorem 1" stands before
\* the paragraph with the markers of f2 and f1, a marker of f3 in a figure
\* after it: f2 has the ordinal 1, f1 the ordinal 2 and f3 the ordinal 3
C28_Witness ==
    /\ pc = "done"
    /\ LET ks == body_divs(doc)[1].kids
       IN  /\ Len(ks) = 4
           /\ HeadingOf(ks[2]) = <<"A", ".", " ", "P", "r", "o", "o", "f", " ", "o", "f", " ", "T", "h", "e", "o", "r", "e", "m", " ", "1">>
           /\ FootTargets(ks[2]) = <<<<"f", "1">>>>
           /\ ks[4].tag = "figure"
           /\ FootTargets(ks[4]) = <<<<"f", "3">>>>
    /\ footnote_counters = << <<<<"f", "2">>, 1>>, <<<<"f", "1">>, 2>>, <<<<"f", "3">>, 3>> >>
    /\ MarkerOrdinals(BodyText) = <<1, 2, 3>>
    /\ ~Contains(BodyText, <<"N">>)

(***************************************************************************)
(* C30: the file a download leaves behind.                                 *)
(***************************************************************************)
\* C30: whenever download_paper has returned, with success or with failure,
\* a file at the target path starts with the PDF magic bytes; no attempt
\* leaves an invalid file behind.
C30_NoInvalidFileLeft ==
    dl_pc = "returned" => (pdf_file = "absent" \/ is_valid_pdf(pdf_file))

\* the last attempt broke while the body was written, the call returned its
\* failure and the file written so far is at the target path
C30_PartialFileLeft ==
    /\ dl_pc = "returned"
    /\ ~returned.success /\ returned.message = "Request error"
    /\ attempt = max_retries - 1
    /\ pdf_file = "other"

(***************************************************************************)
(* C21: output that already exists.                                        *)
(***************************************************************************)
\* download_paper ends as a skipped success without a request
DownloadSkipped ==
    /\ dl_pc' = "returned"
    /\ returned'.success
    /\ stats' = [stats EXCEPT !.skipped = @ + 1]
    /\ requests_sent' = 0
    /\ pdf_file' = pdf_file

\* convert_pdf ends as a skipped success without a request
ConversionSkipped ==
    /\ conv_pc' = "returned"
    /\ conv_returned'.success
    /\ conv_stats' = [conv_stats EXCEPT !.skipped = @ + 1]
    /\ posts_sent' = 0
    /\ xml_file' = xml_file

\* the claim as it is stated: whenever the target output exists and overwrite
\* is false, the call reports success, increments only the skipped counter
\* and sends no request
C21_ExistingOutputSkipped ==
    [][/\ (dl_pc = "entry" /\ is_valid_pdf(pdf_file) /\ ~overwrite) => DownloadSkipped
       /\ (conv_pc = "entry" /\ xml_file /\ ~conv_overwrite) => ConversionSkipped]_vars

\* C21: when the target output exists, overwrite is false and the call has
\* its input (download_paper a URL, convert_pdf the PDF), the call reports
\* success, increments only the skipped counter and sends no request; without
\* its input the call reports a failure, counted as skipped by download_paper
\* and as failed by convert_pdf, and sends no request either.
C21_ExistingOutputSkippedGivenInput ==
    [][/\ (dl_pc = "entry" /\ is_valid_pdf(pdf_file) /\ ~overwrite) =>
            /\ url => DownloadSkipped
            /\ ~url => /\ dl_pc' = "returned" /\ ~returned'.success
                       /\ stats' = [stats EXCEPT !.skipped = @ + 1]
            /\ requests_sent' = 0
       /\ (conv_pc = "entry" /\ xml_file /\ ~conv_overwrite) =>
            /\ pdf_file # "absent" => ConversionSkipped
            /\ pdf_file = "absent" => /\ conv_pc' = "returned" /\ ~conv_returned'.success
                                      /\ conv_stats' = [conv_stats EXCEPT !.failed = @ + 1]
            /\ posts_sent' = 0]_vars

\* a download and a conversion have both been skipped over existing output,
\* with one more skipped call counted by each and no request sent
C21_Witness ==
    /\ dl_pc = "returned" /\ returned = [success |-> TRUE, message |-> "Already exists"]
    /\ url /\ ~overwrite
    /\ stats = [stats_before EXCEPT !.skipped = @ + 1]
    /\ requests_sent = 0
    /\ conv_pc = "returned"
    /\ conv_returned = [success |-> TRUE, message |-> "Already converted"]
    /\ xml_file /\ ~conv_overwrite
    /\ conv_stats = [conv_stats_before EXCEPT !.skipped = @ + 1]
    /\ posts_sent = 0

(***************************************************************************)
(* C25: the attempts of _fetch_batch.                                      *)
(***************************************************************************)
\* the step sends a request that ends in one of rs
Answered(rs) == fetch_requests' = fetch_requests + 1 /\ fetch_response' \in rs

\* the step returns an empty result with an error: client.py returns the
\* message as the third element, fetching.py prints it beside its pair
ReturnsError ==
    /\ fetch_pc' = "returned"
    /\ fetch_returned'.papers = <<>> /\ fetch_returned'.total = 0
    /\ IF fetch_impl = "client"
       THEN fetch_returned'.error # "None"
       ELSE fetch_printed' # "none"

\* the answers the claim says are followed by a further attempt
Retried == {"429", "5xx", "timeout", "network error"}

====
